---- MODULE Spec2Model ----
(***************************************************************************)
(* The API3 DAO tracker's event reducer (client/src/state.rs): the ledger  *)
(* AppState and AppState::update with the operations it dispatches to.     *)
(* Amounts are U256 in the source; the operand bounds below keep every sum *)
(* and product far below 2^256, so only division by zero and subtraction   *)
(* below zero (both panics of U256) are modelled as arithmetic failures.   *)
(***************************************************************************)
EXTENDS Integers, Sequences, FiniteSets, TLC

VARIABLES
    wallets,         \* AppState.wallets: address -> Wallet (domain = known accounts)
    wallets_events,  \* AppState.wallets_events: address -> sequence of events
    votings,         \* AppState.votings: key -> Voting
    votings_events,  \* AppState.votings_events: key -> sequence of events
    epochs,          \* AppState.epochs: index -> Epoch
    epoch_index,     \* AppState.epoch_index
    apr,             \* AppState.apr, in units of 1/10000
    last_block,      \* AppState.last_block
    vested,          \* AppState.vested: the list of vesting addresses, as a set
    status,          \* the process: "running", "exited" (process::exit) or "panicked"
    clock,           \* number of events delivered so far by the ingestion task
    last,            \* the last event delivered and the outcome of its handler
    rt,              \* bookkeeping of a delegate/undelegate round trip
    mode,            \* main(): "scan" (historical scan), then "watch"
    verbose,         \* State.verbose: live mode
    subscribers,     \* State.subscribers: the ids registered in the map
    next_id,         \* NEXT_ID
    conn,            \* id -> position of its ws_connected task
    queues,          \* id -> the messages enqueued on its unbounded channel
    rx_open,         \* id -> whether the receiving half of its channel is alive
    lock,            \* owner of the Mutex around State: "free", "ingest", a
                     \* request handler, or "poisoned"
    pending,         \* the event update() is in the middle of, or None
    rendered,        \* request handler -> the ledger it rendered last, or None
    responses,       \* request handler -> what its last request was answered
    history          \* the ledgers after each whole prefix of the events

\* the ledger: AppState
ledger == <<wallets, wallets_events, votings, votings_events, epochs, epoch_index,
            apr, last_block, vested>>

\* the server around the ledger
server == <<mode, verbose, subscribers, next_id, conn, queues, rx_open, lock,
            pending, rendered, responses, history>>

vars == <<wallets, wallets_events, votings, votings_events, epochs, epoch_index,
          apr, last_block, vested, status, clock, last, rt, mode, verbose,
          subscribers, next_id, conn, queues, rx_open, lock, pending, rendered,
          responses,
          history>>

----------------------------------------------------------------------------
(* Bounds of the model *)

\* number of events delivered in one behaviour
MaxEvents == 3
\* number of events delivered in one behaviour of the reward specification
MaxRewardEvents == 4
\* number of events delivered in one behaviour of the voting specification
MaxVoteEvents == 3
\* number of events delivered in one behaviour of the round-trip specification
MaxTripEvents == 4
\* number of events delivered in one behaviour of the epoch specification
MaxEpochEvents == 4
\* number of events delivered in one behaviour of the variants specification
MaxVariantEvents == 3
\* number of events delivered in one behaviour of the delegation specification
MaxDelegEvents == 3
MaxLogEvents == 3
MaxLiveEvents == 2
MaxSubscribers == 2
MaxServeEvents == 3
MaxRequestEvents == 2
MaxFrameEvents == 3

Addr == {"a1", "a2"}
Addr3 == {"a1", "a2", "a3"}
\* the amounts and share counts an event may carry
Amounts == {1, 2}
\* the shares an Undelegated event may carry
UndelegatedShares == {0, 1, 2}
\* the authoritative total_stake a MintedReward event may carry
Totals == {0, 1, 2, 3, 4}
\* the new_apr a reward event carries, in units of 10^14
NewAprs == {2500}
Agents == {"Primary", "Secondary"}
VoteIds == {1}
\* the values of the payload fields that only the current variants carry
Extras == {0, 3}
\* the shares a Delegated event may carry
PayloadShares == {0, 5}
\* the last path segment of a request for /wallets/<id> and /votings/<id>
WalletPaths == {"a1", "a2", "zz"}
VotingPaths == {"2", "3", "x"}
\* the request handlers that may run at once
Handlers == {"h1", "h2"}
\* the epoch_index a reward event may carry, in or out of order
EpochIndices == {1, 2}

\* Option<T>: None, or Some(x) whose value is Get(o)
None == <<>>
Some(x) == <<x>>
Get(o) == o[1]

----------------------------------------------------------------------------
(* Maps (BTreeMap) as functions whose domain is the key set *)

RemoveKey(m, k) == [x \in (DOMAIN m) \ {k} |-> m[x]]

Insert(m, k, v) == [x \in (DOMAIN m) \cup {k} |-> IF x = k THEN v ELSE m[x]]

EmptyMap == [x \in {} |-> 0]

RECURSIVE SumOver(_, _)
SumOver(m, keys) ==
    IF keys = {} THEN 0
    ELSE LET k == CHOOSE x \in keys : TRUE
         IN m[k] + SumOver(m, keys \ {k})

\* .values().fold(0, |a, b| a + b)
SumValues(m) == SumOver(m, DOMAIN m)

----------------------------------------------------------------------------
(* Wallet *)

\* Wallet::default() as update() fills it in for a first-seen address
\* a mutant: a new account is not stamped with the event's timestamp
NewWallet_unstamped(addr, tm) ==
    [address |-> addr, vested |-> FALSE, vested_amount |-> None,
     supporter |-> FALSE, deposited |-> 0, withdrawn |-> 0, staked |-> 0,
     scheduled_unstake |-> None, shares |-> 0, delegates |-> None,
     delegated |-> EmptyMap, voting_power |-> 0, votes |-> 0, rewards |-> 0,
     created_at |-> 0, updated_at |-> tm]

NewWallet(addr, tm) ==
    [address |-> addr, vested |-> FALSE, vested_amount |-> None,
     supporter |-> FALSE, deposited |-> 0, withdrawn |-> 0, staked |-> 0,
     scheduled_unstake |-> None, shares |-> 0, delegates |-> None,
     delegated |-> EmptyMap, voting_power |-> 0, votes |-> 0, rewards |-> 0,
     created_at |-> tm, updated_at |-> tm]

update_voting_power(w) ==
    [w EXCEPT !.voting_power =
        (IF w.delegates # None THEN 0 ELSE w.shares) + SumValues(w.delegated)]

get_votes_total(ws) == SumValues([a \in DOMAIN ws |-> ws[a].voting_power])

get_shares_total(ws) == SumValues([a \in DOMAIN ws |-> ws[a].shares])

get_staked_total(ws) == SumValues([a \in DOMAIN ws |-> ws[a].staked])

get_voting_power_of(ws, voter) ==
    IF voter \in DOMAIN ws THEN ws[voter].voting_power ELSE 0

----------------------------------------------------------------------------
(* Results of the operations: Ok / Err as anyhow::Result, Panic for a      *)
(* U256 arithmetic panic; w is the wallets map the operation leaves.       *)

Ok(ws) == [res |-> "Ok", w |-> ws]
Err(ws) == [res |-> "Err", w |-> ws]
Panic(ws) == [res |-> "Panic", w |-> ws]

----------------------------------------------------------------------------
(* Delegation graph *)

\* a mutant: the back-reference at the earlier target is kept
delegate_keeps_old_backref(ws, from, to, tm) ==
    IF from \notin DOMAIN ws THEN Err(ws)
    ELSE
      LET address == ws[from].address
          ws2 == [ws EXCEPT ![from] =
                    update_voting_power(
                      [@ EXCEPT !.delegates =
                         Some([address |-> to, shares |-> ws[from].shares,
                               tm |-> tm])])]
      IN IF to \notin DOMAIN ws2 THEN Err(ws2)
         ELSE Ok([ws2 EXCEPT ![to] =
                    update_voting_power(
                      [@ EXCEPT !.delegated =
                         Insert(@, address, ws2[from].shares)])])

delegate(ws, from, to, tm) ==
    IF from \notin DOMAIN ws THEN Err(ws)
    ELSE
      LET address == ws[from].address
          delegates == ws[from].delegates
      IN IF delegates # None /\ Get(delegates).address \notin DOMAIN ws THEN Err(ws)
         ELSE
           LET \* remove existing delegation
               ws1 == IF delegates # None
                      THEN [ws EXCEPT ![Get(delegates).address] =
                              update_voting_power(
                                [@ EXCEPT !.delegated = RemoveKey(@, address)])]
                      ELSE ws
               ws2 == [ws1 EXCEPT ![from] =
                         update_voting_power(
                           [@ EXCEPT !.delegates =
                              Some([address |-> to, shares |-> ws1[from].shares,
                                    tm |-> tm])])]
               w_from == ws2[from]
           IN IF to \notin DOMAIN ws2 THEN Err(ws2)
              ELSE Ok([ws2 EXCEPT ![to] =
                         update_voting_power(
                           [@ EXCEPT !.delegated =
                              Insert(@, address, w_from.shares)])])

\* a mutant: the back-reference in the target's delegated map is kept
undelegate_keeps_backref(ws, from, to, shares) ==
    IF from \notin DOMAIN ws THEN Err(ws)
    ELSE
      LET delegates == ws[from].delegates
      IN IF delegates # None /\ Get(delegates).address # to THEN Err(ws)
         ELSE IF ws[from].shares < shares THEN Err(ws)
         ELSE Ok([ws EXCEPT ![from] =
                    update_voting_power([@ EXCEPT !.delegates = None])])

\* a mutant: the recorded target is not compared with `to`
undelegate_ignores_target(ws, from, to, shares) ==
    IF from \notin DOMAIN ws THEN Err(ws)
    ELSE
      LET delegates == ws[from].delegates
      IN IF delegates # None /\ Get(delegates).address \notin DOMAIN ws THEN Err(ws)
         ELSE
           LET ws1 == IF delegates # None
                      THEN [ws EXCEPT ![Get(delegates).address] =
                              update_voting_power(
                                [@ EXCEPT !.delegated = RemoveKey(@, from)])]
                      ELSE ws
           IN IF ws1[from].shares < shares THEN Err(ws1)
              ELSE Ok([ws1 EXCEPT ![from] =
                         update_voting_power([@ EXCEPT !.delegates = None])])

undelegate(ws, from, to, shares) ==
    IF from \notin DOMAIN ws THEN Err(ws)
    ELSE
      LET delegates == ws[from].delegates
      IN IF delegates # None /\ Get(delegates).address # to THEN Err(ws)
         ELSE IF delegates # None /\ Get(delegates).address \notin DOMAIN ws THEN Err(ws)
         ELSE
           LET \* remove existing delegation
               ws1 == IF delegates # None
                      THEN [ws EXCEPT ![Get(delegates).address] =
                              update_voting_power(
                                [@ EXCEPT !.delegated = RemoveKey(@, from)])]
                      ELSE ws
           IN IF ws1[from].shares < shares THEN Err(ws1)
              ELSE Ok([ws1 EXCEPT ![from] =
                         update_voting_power([@ EXCEPT !.delegates = None])])

----------------------------------------------------------------------------
(* Staking and unstaking *)

\* a mutant: an account that has withdrawn is still marked a supporter
StakedWallet_ignores_withdrawn(w, amount, shares) ==
    LET w1 == [w EXCEPT !.staked = @ + amount, !.shares = @ + shares]
        w2 == IF w1.vested_amount = None
              THEN [w1 EXCEPT !.supporter = TRUE] ELSE w1
        w3 == IF w2.delegates # None
              THEN [w2 EXCEPT !.delegates = Some([Get(@) EXCEPT !.shares = w2.shares])] ELSE w2
    IN update_voting_power(w3)

\* a mutant: every staking account is marked a supporter
StakedWallet_always_supporter(w, amount, shares) ==
    LET w1 == [w EXCEPT !.staked = @ + amount, !.shares = @ + shares,
                        !.supporter = TRUE]
        w3 == IF w1.delegates # None
              THEN [w1 EXCEPT !.delegates = Some([Get(@) EXCEPT !.shares = w1.shares])] ELSE w1
    IN update_voting_power(w3)

\* the wallet of `user` after the first half of staked()
StakedWallet(w, amount, shares) ==
    LET w1 == [w EXCEPT !.staked = @ + amount, !.shares = @ + shares]
        w2 == IF w1.vested_amount = None /\ w1.withdrawn = 0
              THEN [w1 EXCEPT !.supporter = TRUE] ELSE w1
        w3 == IF w2.delegates # None
              THEN [w2 EXCEPT !.delegates = Some([Get(@) EXCEPT !.shares = w2.shares])] ELSE w2
    IN update_voting_power(w3)

\* a mutant: a stake change does not reach the delegate's back-reference
SyncDelegate_skips(ws, user) == ws

\* the second half of staked() and scheduled_unstake(): the back-reference
SyncDelegate(ws, user) ==
    LET d == ws[user].delegates
    IN IF d # None /\ Get(d).address \in DOMAIN ws
       THEN [ws EXCEPT ![Get(d).address] =
               update_voting_power(
                 [@ EXCEPT !.delegated = Insert(@, user, ws[user].shares)])]
       ELSE ws

staked(ws, user, amount, shares) ==
    IF user \notin DOMAIN ws THEN Ok(ws)
    ELSE Ok(SyncDelegate([ws EXCEPT ![user] = StakedWallet(@, amount, shares)],
                         user))

\* a mutant: the amount to deduct is not clamped to the account's staked
scheduled_unstake_unclamped(ws, user, amount, shares, scheduled_for) ==
    IF user \notin DOMAIN ws THEN Err(ws)
    ELSE
      LET w == ws[user]
      IN IF w.shares < shares THEN Err(ws)
         ELSE
           LET w1 == [w EXCEPT
                        !.scheduled_unstake =
                            Some([amount |-> amount, shares |-> shares,
                                  tm |-> scheduled_for]),
                        !.staked = @ - amount,
                        !.shares = @ - shares]
               w2 == IF w1.delegates # None
                     THEN [w1 EXCEPT !.delegates = Some([Get(@) EXCEPT !.shares = w1.shares])] ELSE w1
               w3 == update_voting_power([w2 EXCEPT !.supporter = FALSE])
           IN Ok(SyncDelegate([ws EXCEPT ![user] = w3], user))

scheduled_unstake(ws, user, amount, shares, scheduled_for) ==
    IF user \notin DOMAIN ws THEN Err(ws)
    ELSE
      LET w == ws[user]
      IN IF w.shares < shares THEN Err(ws)
         ELSE
           LET amount_to_deduct == IF w.staked < amount THEN w.staked ELSE amount
               w1 == [w EXCEPT
                        !.scheduled_unstake =
                            Some([amount |-> amount_to_deduct, shares |-> shares,
                                  tm |-> scheduled_for]),
                        !.staked = @ - amount_to_deduct,
                        !.shares = @ - shares]
               w2 == IF w1.delegates # None
                     THEN [w1 EXCEPT !.delegates = Some([Get(@) EXCEPT !.shares = w1.shares])] ELSE w1
               w3 == update_voting_power([w2 EXCEPT !.supporter = FALSE])
           IN Ok(SyncDelegate([ws EXCEPT ![user] = w3], user))

unstaked(ws, user, amount) ==
    LET total_stake == get_staked_total(ws)
        total_shares == get_shares_total(ws)
    IN IF user \notin DOMAIN ws THEN Ok(ws)
       ELSE IF total_stake = 0
            THEN Panic(ws)   \* amount * total_shares / total_stake
            ELSE Ok([ws EXCEPT ![user].scheduled_unstake = None])

----------------------------------------------------------------------------
(* Epoch reward distribution *)

\* nice::dec(new_apr, 14) * 0.0001, the result in units of 1/10000. TLC's
\* integers are 32 bits wide, so an event carries new_apr in units of 10^14.
AprOf(new_apr) == new_apr

\* AppState::new(): apr = 0.3875
GenesisApr == 3875

\* a mutant: the snapshot leaves the accumulated rewards out
StakeSnapshot_staked_only(ws) == [a \in DOMAIN ws |-> ws[a].staked]

\* the stake snapshot of distribute(): staked + rewards of every wallet
StakeSnapshot(ws) == [a \in DOMAIN ws |-> ws[a].staked + ws[a].rewards]

\* a mutant: the minted amount is not taken off the authoritative total
EpochTotal_keeps_minted(ws, amount, total_stake) ==
    IF total_stake # None THEN Get(total_stake)
    ELSE SumValues(StakeSnapshot(ws))

\* `total` of distribute(); the caller has excluded the underflow
EpochTotal(ws, amount, total_stake) ==
    IF total_stake # None THEN Get(total_stake) - amount
    ELSE SumValues(StakeSnapshot(ws))

\* the credit loop of distribute()
Credit(ws, minted, total) ==
    [a \in DOMAIN ws |->
        [ws[a] EXCEPT !.rewards =
            @ + ((minted * (ws[a].staked + ws[a].rewards)) \div total)]]

\* distribute(): a record of the parts of the ledger it writes
distribute(ws, eps, ei, ap, index, amount, new_apr, total_stake, tm, block_number, tx) ==
    IF total_stake # None /\ Get(total_stake) < amount
    THEN \* x - amount underflows
         [res |-> "Panic", w |-> ws, epochs |-> eps, epoch_index |-> ei, apr |-> ap]
    ELSE
      LET stake == StakeSnapshot(ws)
          total == EpochTotal(ws, amount, total_stake)
          epoch == [index |-> index, apr |-> ap, minted |-> amount, total |-> total,
                    stake |-> stake, tm |-> tm, block_number |-> block_number,
                    tx |-> tx]
          eps1 == Insert(eps, index, epoch)
      IN IF DOMAIN ws # {} /\ total = 0
         THEN \* (epoch.minted * staked) / total divides by zero
              [res |-> "Panic", w |-> ws, epochs |-> eps1, epoch_index |-> ei,
               apr |-> ap]
         ELSE [res |-> "Ok", w |-> Credit(ws, amount, total), epochs |-> eps1,
               epoch_index |-> index + 1, apr |-> AprOf(new_apr)]

----------------------------------------------------------------------------
(* Events (crate::events::Api3) and their wrapper OnChainEvent *)

\* the event delivered as number n: timestamp, block and transaction follow
\* the delivery order
OnChainEvent(entry, n) ==
    [entry |-> entry, tm |-> n, block_number |-> n, tx |-> n, log_index |-> 0]

UserKinds == {"Deposited", "DepositedV0", "DepositedVesting",
              "DepositedByTimelockManager", "Withdrawn", "WithdrawnV0",
              "Staked", "StakedV0", "ScheduledUnstake", "ScheduledUnstakeV0",
              "Unstaked", "UnstakedV0"}

\* Api3::get_wallets(): the addresses an event references, in order
get_wallets(entry) ==
    CASE entry.kind \in UserKinds -> <<entry.user>>
      [] entry.kind \in {"Delegated", "DelegatedV0", "Undelegated", "UndelegatedV0"}
            -> <<entry.from, entry.to>>
      [] entry.kind = "StartVote" -> <<entry.creator>>
      [] entry.kind = "CastVote" -> <<entry.voter>>
      [] OTHER -> <<>>

\* events::voting_to_u64(): one integer for (agent, vote_id)
voting_to_u64(agent, vote_id) ==
    IF agent = "Primary" THEN 2 * vote_id ELSE 2 * vote_id + 1

\* Api3::get_voting(): the proposal an event references
get_voting(entry) ==
    IF entry.kind \in {"StartVote", "CastVote", "ExecuteVote"}
    THEN Some(voting_to_u64(entry.agent, entry.vote_id))
    ELSE None

----------------------------------------------------------------------------
(* AppState::update, first part: first-seen accounts and the event logs *)

RECURSIVE Materialize(_, _, _)
\* wallets after the loop over get_wallets(): a Wallet for a first-seen address
\* (wallets_events.contains_key decides), updated_at stamped
Materialize(ws, addrs, tm) ==
    IF addrs = <<>> THEN ws
    ELSE LET a == Head(addrs)
             ws1 == IF a \in DOMAIN ws THEN ws ELSE Insert(ws, a, NewWallet(a, tm))
         IN Materialize([ws1 EXCEPT ![a].updated_at = tm], Tail(addrs), tm)

RECURSIVE PushAll(_, _, _)
\* wallets_events after the same loop: the event pushed once per reference
PushAll(logs, addrs, e) ==
    IF addrs = <<>> THEN logs
    ELSE LET a == Head(addrs)
             l1 == IF a \in DOMAIN logs THEN logs ELSE Insert(logs, a, <<>>)
         IN PushAll([l1 EXCEPT ![a] = Append(@, e)], Tail(addrs), e)

\* a mutant: the proposal's log keeps the latest event only
PushVoting_replaces(logs, id, e) ==
    IF id = None THEN logs
    ELSE LET l1 == IF Get(id) \in DOMAIN logs THEN logs
                   ELSE Insert(logs, Get(id), <<>>)
         IN [l1 EXCEPT ![Get(id)] = <<e>>]

\* votings_events after get_voting().map(..)
PushVoting(logs, id, e) ==
    IF id = None THEN logs
    ELSE LET l1 == IF Get(id) \in DOMAIN logs THEN logs
                   ELSE Insert(logs, Get(id), <<>>)
         IN [l1 EXCEPT ![Get(id)] = Append(@, e)]

----------------------------------------------------------------------------
(* AppState::update, second part: the match over the event kinds.          *)
(* A handler's result: res, exit (process::exit called) and the parts of   *)
(* the ledger it writes.                                                   *)

Result(res, exit, ws, eps, ei, ap, vs, vst) ==
    [res |-> res, exit |-> exit, w |-> ws, epochs |-> eps, epoch_index |-> ei,
     apr |-> ap, votings |-> vs, vested |-> vst]

\* a handler that touches the wallets only
OnWallets(r, exit, eps, ei, ap, vs, vst) ==
    Result(r.res, exit, r.w, eps, ei, ap, vs, vst)

set_vesting_addresses(ws, addresses) ==
    [a \in DOMAIN ws |-> [ws[a] EXCEPT !.vested = (a \in addresses)]]

\* a mutant: votes_total is the creator's voting power, not the DAO's
StartVote_total_of_creator(ws, vs, entry, e) ==
    Insert(vs, voting_to_u64(entry.agent, entry.vote_id),
           [primary |-> (entry.agent = "Primary"), tm |-> e.tm,
            block_number |-> e.block_number, tx |-> e.tx,
            vote_id |-> entry.vote_id, creator |-> entry.creator,
            metadata |-> entry.metadata,
            title |-> IF Len(entry.metadata) >= 3 THEN <<entry.metadata[3]>>
                      ELSE entry.metadata,
            description |-> IF Len(entry.metadata) >= 4
                            THEN <<entry.metadata[4]>> ELSE <<>>,
            votes_total |-> get_voting_power_of(ws, entry.creator),
            voted_yes |-> get_voting_power_of(ws, entry.creator),
            voted_no |-> 0,
            yes |-> Insert(EmptyMap, entry.creator,
                           get_voting_power_of(ws, entry.creator)),
            no |-> EmptyMap, executed |-> FALSE, details |-> None])

\* Api3::StartVote
StartVote(ws, vs, entry, e) ==
    LET parts == entry.metadata
        v == [primary |-> (entry.agent = "Primary"), tm |-> e.tm,
              block_number |-> e.block_number, tx |-> e.tx,
              vote_id |-> entry.vote_id, creator |-> entry.creator,
              metadata |-> entry.metadata,
              title |-> IF Len(parts) >= 3 THEN <<parts[3]>> ELSE parts,
              description |-> IF Len(parts) >= 4 THEN <<parts[4]>> ELSE <<>>,
              votes_total |-> get_votes_total(ws),
              voted_yes |-> get_voting_power_of(ws, entry.creator),
              voted_no |-> 0,
              yes |-> Insert(EmptyMap, entry.creator,
                             get_voting_power_of(ws, entry.creator)),
              no |-> EmptyMap, executed |-> FALSE, details |-> None]
    IN Insert(vs, voting_to_u64(entry.agent, entry.vote_id), v)

\* a mutant: the cast stake is added to the tally, the maps are not summed
CastOn_adds_stake(v, voter, supports, stake) ==
    LET yes == IF supports THEN Insert(v.yes, voter, stake) ELSE v.yes
        no == IF supports THEN v.no ELSE Insert(v.no, voter, stake)
    IN [v EXCEPT !.yes = yes, !.no = no,
                 !.voted_yes = IF supports THEN @ + stake ELSE @,
                 !.voted_no = IF supports THEN @ ELSE @ + stake]

\* the tally of Api3::CastVote for an existing proposal
CastOn(v, voter, supports, stake) ==
    LET yes == IF supports THEN Insert(v.yes, voter, stake) ELSE v.yes
        no == IF supports THEN v.no ELSE Insert(v.no, voter, stake)
    IN [v EXCEPT !.yes = yes, !.no = no,
                 !.voted_yes = SumValues(yes), !.voted_no = SumValues(no)]

\* a mutant: a vote on an unknown proposal is kept as a proposal of its own
CastVote_keeps_unknown(vs, entry) ==
    LET key == voting_to_u64(entry.agent, entry.vote_id)
    IN IF key \in DOMAIN vs
       THEN [vs EXCEPT ![key] = CastOn(@, entry.voter, entry.supports, entry.stake)]
       ELSE Insert(vs, key,
                   [yes |-> EmptyMap, no |-> EmptyMap, voted_yes |-> 0,
                    voted_no |-> 0, votes_total |-> 0, executed |-> FALSE])

\* Api3::CastVote
CastVote(vs, entry) ==
    LET key == voting_to_u64(entry.agent, entry.vote_id)
    IN IF key \in DOMAIN vs
       THEN [vs EXCEPT ![key] = CastOn(@, entry.voter, entry.supports, entry.stake)]
       ELSE vs

\* a mutant: executing a proposal drops the votes against it
ExecuteVote_drops_no(vs, entry) ==
    LET key == voting_to_u64(entry.agent, entry.vote_id)
    IN IF key \in DOMAIN vs
       THEN [vs EXCEPT ![key].executed = TRUE, ![key].no = EmptyMap,
                       ![key].voted_no = 0]
       ELSE vs

\* Api3::ExecuteVote
ExecuteVote(vs, entry) ==
    LET key == voting_to_u64(entry.agent, entry.vote_id)
    IN IF key \in DOMAIN vs THEN [vs EXCEPT ![key].executed = TRUE] ELSE vs

\* w.votes = w.votes + 1 for a known wallet
CountVote(ws, a) ==
    IF a \in DOMAIN ws THEN [ws EXCEPT ![a].votes = @ + 1] ELSE ws

\* a mutant: a deposit or withdrawal also moves the staked balance
Deposit_moves_stake(ws, entry) ==
    LET u == entry.user
    IN IF u \notin DOMAIN ws THEN ws
       ELSE IF entry.kind \in {"Withdrawn", "WithdrawnV0"}
            THEN [ws EXCEPT ![u].withdrawn = @ + entry.amount,
                            ![u].supporter = FALSE, ![u].staked = 0]
            ELSE [ws EXCEPT ![u].deposited = @ + entry.amount,
                            ![u].staked = @ + entry.amount]

\* the deposit / withdrawal arms, one per event kind
Deposit(ws, entry) ==
    LET u == entry.user
    IN IF u \notin DOMAIN ws THEN ws
       ELSE CASE entry.kind = "Deposited"
                   -> [ws EXCEPT ![u].deposited = @ + entry.amount]
              [] entry.kind = "DepositedV0"
                   -> [ws EXCEPT ![u].deposited = @ + entry.amount]
              [] entry.kind = "DepositedVesting"
                   -> [ws EXCEPT ![u].deposited = @ + entry.amount,
                                 ![u].vested_amount =
                                    Some(entry.amount
                                         + (IF @ = None THEN 0 ELSE Get(@))),
                                 ![u].supporter = FALSE]
              [] entry.kind = "DepositedByTimelockManager"
                   -> [ws EXCEPT ![u].deposited = @ + entry.amount,
                                 ![u].supporter = FALSE]
              [] entry.kind = "Withdrawn"
                   -> [ws EXCEPT ![u].withdrawn = @ + entry.amount,
                                 ![u].supporter = FALSE]
              [] OTHER \* WithdrawnV0
                   -> [ws EXCEPT ![u].withdrawn = @ + entry.amount,
                                 ![u].supporter = FALSE]

\* a mutant: the Staked arm takes the shares from the payload's user_shares
OnStaked_trusts_user_shares(ws, entry) ==
    staked(ws, entry.user, entry.amount, entry.user_shares)

\* the Api3::Staked arm: user_unstaked, user_shares, total_shares and
\* total_stake of the payload are not read
OnStaked(ws, entry) ==
    staked(ws, entry.user, entry.amount, entry.minted_shares)

\* the match of update(): ws are the wallets after the first part
Handle(e, ws, eps, ei, ap, vs, vst) ==
    LET entry == e.entry
        k == entry.kind
    IN CASE k = "MintedReward" ->
              LET d == distribute(ws, eps, ei, ap, entry.epoch_index, entry.amount,
                                  entry.new_apr, Some(entry.total_stake),
                                  e.tm, e.block_number, e.tx)
              IN Result(d.res, FALSE, d.w, d.epochs, d.epoch_index, d.apr, vs, vst)
         [] k = "MintedRewardV0" ->
              LET d == distribute(ws, eps, ei, ap, entry.epoch_index, entry.amount,
                                  entry.new_apr, None, e.tm, e.block_number, e.tx)
              IN Result(d.res, FALSE, d.w, d.epochs, d.epoch_index, d.apr, vs, vst)
         [] k \in {"Deposited", "DepositedV0", "DepositedVesting",
                   "DepositedByTimelockManager", "Withdrawn", "WithdrawnV0"} ->
              Result("Ok", FALSE, Deposit(ws, entry), eps, ei, ap, vs, vst)
         [] k = "Staked" ->
              OnWallets(OnStaked(ws, entry), FALSE, eps, ei, ap, vs, vst)
         [] k = "StakedV0" ->
              OnWallets(staked(ws, entry.user, entry.amount, entry.minted_shares),
                        FALSE, eps, ei, ap, vs, vst)
         [] k = "ScheduledUnstake" ->
              LET r == scheduled_unstake(ws, entry.user, entry.amount, entry.shares,
                                         entry.scheduled_for)
              IN OnWallets(r, r.res = "Err", eps, ei, ap, vs, vst)
         [] k = "ScheduledUnstakeV0" ->
              LET r == scheduled_unstake(ws, entry.user, entry.amount, entry.shares,
                                         entry.scheduled_for)
              IN OnWallets(r, r.res = "Err", eps, ei, ap, vs, vst)
         [] k = "Unstaked" ->
              OnWallets(unstaked(ws, entry.user, entry.amount),
                        FALSE, eps, ei, ap, vs, vst)
         [] k = "UnstakedV0" ->
              OnWallets(unstaked(ws, entry.user, entry.amount),
                        FALSE, eps, ei, ap, vs, vst)
         [] k = "Delegated" ->
              OnWallets(delegate(ws, entry.from, entry.to, e.tm),
                        FALSE, eps, ei, ap, vs, vst)
         [] k = "DelegatedV0" ->
              OnWallets(delegate(ws, entry.from, entry.to, e.tm),
                        FALSE, eps, ei, ap, vs, vst)
         [] k = "Undelegated" ->
              OnWallets(undelegate(ws, entry.from, entry.to, entry.shares),
                        FALSE, eps, ei, ap, vs, vst)
         [] k = "UndelegatedV0" ->
              OnWallets(undelegate(ws, entry.from, entry.to, entry.shares),
                        FALSE, eps, ei, ap, vs, vst)
         [] k = "StartVote" ->
              Result("Ok", FALSE, CountVote(ws, entry.creator), eps, ei, ap,
                     StartVote(ws, vs, entry, e), vst)
         [] k = "CastVote" ->
              Result("Ok", FALSE, CountVote(ws, entry.voter), eps, ei, ap,
                     CastVote(vs, entry), vst)
         [] k = "ExecuteVote" ->
              Result("Ok", FALSE, ws, eps, ei, ap, ExecuteVote(vs, entry), vst)
         [] k = "SetVestingAddresses" ->
              Result("Ok", FALSE, set_vesting_addresses(ws, entry.addresses),
                     eps, ei, ap, vs, entry.addresses)
         [] OTHER -> Result("Ok", FALSE, ws, eps, ei, ap, vs, vst)

\* the ingestion task delivers one event: AppState::update(e, log) as a whole
update(entry) ==
    /\ status = "running"
    /\ LET e == OnChainEvent(entry, clock + 1)
           ws0 == Materialize(wallets, get_wallets(entry), e.tm)
           r == Handle(e, ws0, epochs, epoch_index, apr, votings, vested)
       IN /\ last_block' = e.block_number
          /\ wallets_events' = PushAll(wallets_events, get_wallets(entry), e)
          /\ votings_events' = PushVoting(votings_events, get_voting(entry), e)
          /\ wallets' = r.w
          /\ epochs' = r.epochs
          /\ epoch_index' = r.epoch_index
          /\ apr' = r.apr
          /\ votings' = r.votings
          /\ vested' = r.vested
          /\ status' = IF r.res = "Panic" THEN "panicked"
                       ELSE IF r.exit THEN "exited" ELSE "running"
          /\ last' = [ev |-> Some(e), res |-> r.res]
          /\ clock' = clock + 1

----------------------------------------------------------------------------
(* The events the ingestion task may deliver *)

Kind(name, v0) == IF v0 THEN name \o "V0" ELSE name

Staked(user, amount, minted_shares, v0) ==
    update([kind |-> Kind("Staked", v0), user |-> user, amount |-> amount,
            minted_shares |-> minted_shares])

ScheduledUnstake(user, amount, shares, v0) ==
    update([kind |-> Kind("ScheduledUnstake", v0), user |-> user,
            amount |-> amount, shares |-> shares, scheduled_for |-> clock + 2])

Unstaked(user, amount, v0) ==
    update([kind |-> Kind("Unstaked", v0), user |-> user, amount |-> amount])

Delegated(from, to, shares, v0) ==
    update([kind |-> Kind("Delegated", v0), from |-> from, to |-> to,
            shares |-> shares])

Undelegated(from, to, shares, v0) ==
    update([kind |-> Kind("Undelegated", v0), from |-> from, to |-> to,
            shares |-> shares])

MintedReward(index, amount, new_apr, total_stake) ==
    update([kind |-> "MintedReward", epoch_index |-> index, amount |-> amount,
            new_apr |-> new_apr, total_stake |-> total_stake])

MintedRewardV0(index, amount, new_apr) ==
    update([kind |-> "MintedRewardV0", epoch_index |-> index, amount |-> amount,
            new_apr |-> new_apr])

StartVoteEvent(agent, vote_id, creator, metadata) ==
    update([kind |-> "StartVote", agent |-> agent, vote_id |-> vote_id,
            creator |-> creator, metadata |-> metadata])

CastVoteEvent(agent, vote_id, voter, supports, stake) ==
    update([kind |-> "CastVote", agent |-> agent, vote_id |-> vote_id,
            voter |-> voter, supports |-> supports, stake |-> stake])

ExecuteVoteEvent(agent, vote_id) ==
    update([kind |-> "ExecuteVote", agent |-> agent, vote_id |-> vote_id])

Init ==
    /\ wallets = EmptyMap
    /\ wallets_events = EmptyMap
    /\ votings = EmptyMap
    /\ votings_events = EmptyMap
    /\ epochs = EmptyMap
    /\ epoch_index = 1
    /\ apr = GenesisApr
    /\ last_block = 0
    /\ vested = {}
    /\ status = "running"
    /\ clock = 0
    /\ last = [ev |-> None, res |-> "Ok"]
    /\ rt = [phase |-> "idle"]
    /\ mode = "scan"
    /\ verbose = FALSE
    /\ subscribers = {}
    /\ next_id = 1
    /\ conn = EmptyMap
    /\ queues = EmptyMap
    /\ rx_open = EmptyMap
    /\ lock = "ingest"
    /\ pending = None
    /\ rendered = [h \in Handlers |-> None]
    /\ responses = [h \in Handlers |-> None]
    /\ history = {}

----------------------------------------------------------------------------
(* Spec: staking, unstaking and delegation between two accounts *)

StakedStep ==
    /\ clock < MaxEvents
    /\ \E u \in Addr, amount \in Amounts, shares \in Amounts :
          Staked(u, amount, shares, FALSE)
    /\ UNCHANGED <<rt, server>>

ScheduledUnstakeStep ==
    /\ clock < MaxEvents
    /\ \E u \in Addr, amount \in Amounts, shares \in Amounts :
          ScheduledUnstake(u, amount, shares, FALSE)
    /\ UNCHANGED <<rt, server>>

UnstakedStep ==
    /\ clock < MaxEvents
    /\ \E u \in Addr, amount \in Amounts, v0 \in BOOLEAN : Unstaked(u, amount, v0)
    /\ UNCHANGED <<rt, server>>

DelegatedStep ==
    /\ clock < MaxEvents
    /\ \E from \in Addr, to \in Addr : Delegated(from, to, 0, FALSE)
    /\ UNCHANGED <<rt, server>>

UndelegatedStep ==
    /\ clock < MaxEvents
    /\ \E from \in Addr, to \in Addr, shares \in UndelegatedShares :
          Undelegated(from, to, shares, FALSE)
    /\ UNCHANGED <<rt, server>>

Next ==
    \/ StakedStep
    \/ ScheduledUnstakeStep
    \/ UnstakedStep
    \/ DelegatedStep
    \/ UndelegatedStep

Spec == Init /\ [][Next]_vars

----------------------------------------------------------------------------
(* SpecReward: staking and reward distribution *)

RewardStakedStep ==
    /\ clock < MaxRewardEvents
    /\ \E u \in Addr, amount \in Amounts : Staked(u, amount, amount, FALSE)
    /\ UNCHANGED <<rt, server>>

MintedRewardStep ==
    /\ clock < MaxRewardEvents
    /\ \E amount \in Amounts, new_apr \in NewAprs, total_stake \in Totals :
          MintedReward(epoch_index, amount, new_apr, total_stake)
    /\ UNCHANGED <<rt, server>>

MintedRewardV0Step ==
    /\ clock < MaxRewardEvents
    /\ \E amount \in Amounts, new_apr \in NewAprs :
          MintedRewardV0(epoch_index, amount, new_apr)
    /\ UNCHANGED <<rt, server>>

NextReward ==
    \/ RewardStakedStep
    \/ MintedRewardStep
    \/ MintedRewardV0Step

SpecReward == Init /\ [][NextReward]_vars

----------------------------------------------------------------------------
(* The last delivered event *)

Delivered == last.ev # None
LastEntry == Get(last.ev).entry
LastKind == IF Delivered THEN LastEntry.kind ELSE "none"

MintKinds == {"MintedReward", "MintedRewardV0"}

\* the event of the step being taken, for the action properties
StepKind == Get(last'.ev).entry.kind
StepEntry == Get(last'.ev).entry

----------------------------------------------------------------------------
(* Claims on reward distribution, under SpecReward *)

\* what the step's reward event credited, summed over the accounts
CreditedByStep ==
    SumValues([a \in DOMAIN wallets |-> wallets'[a].rewards - wallets[a].rewards])

\* C3 (as claimed): every reward event that distribute() completes on a ledger
\* with at least one account credits, over all accounts, no more than the minted
\* amount, and less than the number of accounts stays uncredited - whether the
\* total comes from the ledger or from the event's total_stake.
C3_RewardConservation ==
    [][(StepKind \in MintKinds /\ last'.res = "Ok" /\ DOMAIN wallets # {})
        => /\ CreditedByStep <= StepEntry.amount
           /\ StepEntry.amount - CreditedByStep < Cardinality(DOMAIN wallets)]_vars

\* C10: the epoch a reward event inserts has total = the sum of staked + rewards
\* over the accounts as they were before this event's crediting (MintedRewardV0),
\* and total = total_stake - amount of the event (MintedReward). An epoch is
\* inserted unless total_stake - amount underflows.
C10_EpochTotal ==
    [][(StepKind \in MintKinds
        /\ ~(StepKind = "MintedReward" /\ StepEntry.total_stake < StepEntry.amount))
        => /\ StepEntry.epoch_index \in DOMAIN epochs'
           /\ epochs'[StepEntry.epoch_index].total =
                IF StepKind = "MintedRewardV0"
                THEN SumValues([a \in DOMAIN wallets |->
                                   wallets[a].staked + wallets[a].rewards])
                ELSE StepEntry.total_stake - StepEntry.amount]_vars

\* C10 witness: a MintedRewardV0 event was distributed over accounts that
\* already held rewards of an earlier epoch, and credited some more
C10_Witness ==
    /\ LastKind = "MintedRewardV0"
    /\ last.res = "Ok"
    /\ \E a \in DOMAIN wallets :
          /\ epochs[LastEntry.epoch_index].stake[a] > wallets[a].staked
          /\ wallets[a].rewards + wallets[a].staked
                > epochs[LastEntry.epoch_index].stake[a]

----------------------------------------------------------------------------
(* Claims on staking and delegation, under Spec *)

DelegationKinds == {"Delegated", "DelegatedV0", "Undelegated", "UndelegatedV0"}
ScheduleKinds == {"ScheduledUnstake", "ScheduledUnstakeV0"}
UnstakedKinds == {"Unstaked", "UnstakedV0"}

\* the wallets as the step's handler finds them: first-seen accounts created
PreCall == Materialize(wallets, get_wallets(StepEntry), Get(last'.ev).tm)

Balances(w) ==
    [staked |-> w.staked, shares |-> w.shares, rewards |-> w.rewards,
     delegates |-> w.delegates, delegated |-> w.delegated,
     voting_power |-> w.voting_power]

\* C1 (as claimed): every account has voting_power = 0 if it delegates, and
\* voting_power = shares + the sum of its delegated map otherwise.
C1_VotingPowerDerivation ==
    \A a \in DOMAIN wallets :
        wallets[a].voting_power =
            IF wallets[a].delegates # None THEN 0
            ELSE wallets[a].shares + SumValues(wallets[a].delegated)

\* C2 (as claimed): for every account `from` that delegates to `to` with
\* snapshot s, `to` exists and to.delegated[from] = s = from.shares.
C2_DelegationSymmetry ==
    \A from \in DOMAIN wallets :
        wallets[from].delegates # None =>
            LET d == Get(wallets[from].delegates)
            IN /\ d.address \in DOMAIN wallets
               /\ from \in DOMAIN wallets[d.address].delegated
               /\ wallets[d.address].delegated[from] = d.shares
               /\ d.shares = wallets[from].shares

\* C5 (as claimed): an Unstaked / UnstakedV0 event for an existing account
\* completes normally, leaves the account without a scheduled unstake and
\* changes no balance, delegation or voting power of any account.
C5_UnstakedConfirms ==
    [][(StepKind \in UnstakedKinds /\ StepEntry.user \in DOMAIN wallets)
        => /\ last'.res = "Ok"
           /\ status' = "running"
           /\ wallets'[StepEntry.user].scheduled_unstake = None
           /\ \A a \in DOMAIN wallets :
                 Balances(wallets'[a]) = Balances(wallets[a])]_vars

\* C6 (as claimed): when delegate or undelegate returns an error, every
\* account's staked, shares, delegates, delegated and voting_power are what
\* they were before the call, and processing goes on.
C6_FailureLeavesState ==
    [][(StepKind \in DelegationKinds /\ last'.res = "Err")
        => /\ status' = "running"
           /\ \A a \in DOMAIN wallets' :
                 Balances(wallets'[a]) = Balances(PreCall[a])]_vars

\* C7 (as claimed): a scheduled-unstake event carrying more shares than the
\* account holds fails without changing the account and terminates the
\* process, after which no event is applied; no other event's failure
\* terminates processing.
C7_OnlyScheduledUnstakeIsFatal ==
    [][/\ status = "running"
       /\ (StepKind \in ScheduleKinds
           /\ StepEntry.shares > PreCall[StepEntry.user].shares)
          => /\ last'.res = "Err"
             /\ status' = "exited"
             /\ Balances(wallets'[StepEntry.user])
                   = Balances(PreCall[StepEntry.user])
             /\ wallets'[StepEntry.user].scheduled_unstake
                   = PreCall[StepEntry.user].scheduled_unstake
             /\ wallets'[StepEntry.user].supporter
                   = PreCall[StepEntry.user].supporter
       /\ StepKind \notin ScheduleKinds => status' = "running"]_vars

----------------------------------------------------------------------------
(* SpecVote: proposals and votes *)

\* the metadata of a proposal, split at "|"
Metadata == <<"1", "link", "title", "description">>

VoteStakedStep ==
    /\ clock < MaxVoteEvents
    /\ \E u \in Addr, amount \in Amounts : Staked(u, amount, amount, FALSE)
    /\ UNCHANGED <<rt, server>>

StartVoteStep ==
    /\ clock < MaxVoteEvents
    /\ \E agent \in Agents, vote_id \in VoteIds, creator \in Addr :
          StartVoteEvent(agent, vote_id, creator, Metadata)
    /\ UNCHANGED <<rt, server>>

CastVoteStep ==
    /\ clock < MaxVoteEvents
    /\ \E agent \in Agents, vote_id \in VoteIds, voter \in Addr,
          supports \in BOOLEAN, stake \in Amounts :
          CastVoteEvent(agent, vote_id, voter, supports, stake)
    /\ UNCHANGED <<rt, server>>

ExecuteVoteStep ==
    /\ clock < MaxVoteEvents
    /\ \E agent \in Agents, vote_id \in VoteIds : ExecuteVoteEvent(agent, vote_id)
    /\ UNCHANGED <<rt, server>>

NextVote ==
    \/ VoteStakedStep
    \/ StartVoteStep
    \/ CastVoteStep
    \/ ExecuteVoteStep

SpecVote == Init /\ [][NextVote]_vars

\* what a voter's entry adds to the sum of a yes / no map
Contribution(m, voter) == IF voter \in DOMAIN m THEN m[voter] ELSE 0

\* C4 (as claimed): after a CastVote by V on an existing proposal P, V's weight
\* is counted on the side of that latest vote only: V adds the cast weight to
\* that side's sum and nothing to the other side's.
C4_VoteOverwrite ==
    (LastKind = "CastVote"
     /\ voting_to_u64(LastEntry.agent, LastEntry.vote_id) \in DOMAIN votings)
    => LET v == votings[voting_to_u64(LastEntry.agent, LastEntry.vote_id)]
           mine == IF LastEntry.supports THEN v.yes ELSE v.no
           other == IF LastEntry.supports THEN v.no ELSE v.yes
       IN /\ Contribution(mine, LastEntry.voter) = LastEntry.stake
          /\ Contribution(other, LastEntry.voter) = 0
          /\ v.voted_yes = SumValues(v.yes)
          /\ v.voted_no = SumValues(v.no)

----------------------------------------------------------------------------
(* SpecTrip: delegations among three accounts, and round trips: a Delegated *)
(* event directly followed by the Undelegated event of the same pair that   *)
(* carries the delegator's shares                                           *)

Idle == [phase |-> "idle"]

\* voting power and delegated map of both ends as delegate() finds them
TripSnapshot(ws, from, to) ==
    [from_delegates |-> ws[from].delegates,
     from_voting_power |-> ws[from].voting_power,
     from_delegated |-> ws[from].delegated,
     to_voting_power |-> ws[to].voting_power,
     to_delegated |-> ws[to].delegated]

TripStakedStep ==
    /\ clock < MaxTripEvents
    /\ rt.phase # "delegated"
    /\ \E u \in Addr3 : Staked(u, 1, 1, FALSE)
    /\ rt' = Idle
    /\ UNCHANGED server

TripDelegatedStep ==
    /\ clock < MaxTripEvents
    /\ rt.phase # "delegated"
    /\ \E from \in Addr3, to \in Addr3 : Delegated(from, to, 0, FALSE)
    /\ rt' = Idle
    /\ UNCHANGED server

TripBeginStep ==
    /\ clock + 1 < MaxTripEvents
    /\ rt.phase # "delegated"
    /\ \E from \in Addr3, to \in Addr3 :
          /\ Delegated(from, to, 0, FALSE)
          /\ rt' = [phase |-> "delegated", from |-> from, to |-> to,
                    pre |-> TripSnapshot(
                               Materialize(wallets, <<from, to>>, clock + 1),
                               from, to)]
    /\ UNCHANGED server

TripEndStep ==
    /\ rt.phase = "delegated"
    /\ Undelegated(rt.from, rt.to, wallets[rt.from].shares, FALSE)
    /\ rt' = [rt EXCEPT !.phase = "done"]
    /\ UNCHANGED server

NextTrip ==
    \/ TripStakedStep
    \/ TripDelegatedStep
    \/ TripBeginStep
    \/ TripEndStep

SpecTrip == Init /\ [][NextTrip]_vars

\* both ends are as they were before the delegate call
TripRestored ==
    /\ last.res = "Ok"
    /\ wallets[rt.from].voting_power = rt.pre.from_voting_power
    /\ wallets[rt.from].delegated = rt.pre.from_delegated
    /\ wallets[rt.to].voting_power = rt.pre.to_voting_power
    /\ wallets[rt.to].delegated = rt.pre.to_delegated

\* C9 (as claimed): delegate(from, to) followed by undelegate(from, to,
\* from.shares) restores voting_power and delegated of from and to, whatever
\* from's state was before.
C9_RoundTripAnyPrior == rt.phase = "done" => TripRestored

\* C9 (amended): the round trip restores voting_power and delegated of from
\* and to when from had no outgoing delegation before the delegate call.
C9_RoundTrip ==
    (rt.phase = "done" /\ rt.pre.from_delegates = None) => TripRestored

\* C9 witness: a round trip between two different accounts is complete; the
\* delegator holds shares and did not delegate before
C9_Witness ==
    /\ rt.phase = "done"
    /\ rt.pre.from_delegates = None
    /\ rt.from # rt.to
    /\ wallets[rt.from].shares > 0
    /\ rt.pre.to_voting_power > 0

----------------------------------------------------------------------------
(* SpecEpoch: reward events whose epoch_index is any index, repeated or out *)
(* of order                                                                 *)

EpochStakedStep ==
    /\ clock < MaxEpochEvents
    /\ \E u \in Addr, amount \in Amounts : Staked(u, amount, amount, FALSE)
    /\ UNCHANGED <<rt, server>>

EpochMintedRewardStep ==
    /\ clock < MaxEpochEvents
    /\ \E index \in EpochIndices, amount \in Amounts, new_apr \in NewAprs,
          total_stake \in Totals :
          MintedReward(index, amount, new_apr, total_stake)
    /\ UNCHANGED <<rt, server>>

EpochMintedRewardV0Step ==
    /\ clock < MaxEpochEvents
    /\ \E index \in EpochIndices, amount \in Amounts, new_apr \in NewAprs :
          MintedRewardV0(index, amount, new_apr)
    /\ UNCHANGED <<rt, server>>

NextEpoch ==
    \/ EpochStakedStep
    \/ EpochMintedRewardStep
    \/ EpochMintedRewardV0Step

SpecEpoch == Init /\ [][NextEpoch]_vars

\* C11 (as claimed): an epoch record, once inserted, is never changed by a
\* later event - a reward event repeating its index included - and every
\* newly inserted epoch has an index above all the earlier ones.
C11_EpochImmutable ==
    [][/\ \A i \in DOMAIN epochs :
             i \in DOMAIN epochs' /\ epochs'[i] = epochs[i]
       /\ \A j \in (DOMAIN epochs') \ (DOMAIN epochs) :
             \A i \in DOMAIN epochs : i < j]_vars

\* C19: a reward event with index i that distribute() completes leaves
\* epochs[i] with minted = the event's amount, apr = the ledger's APR before
\* the event and stake[a] = staked + rewards of every account a before the
\* crediting, and leaves the ledger's epoch_index at i + 1.
C19_EpochRecord ==
    [][(StepKind \in MintKinds /\ last'.res = "Ok")
        => LET i == StepEntry.epoch_index
           IN /\ i \in DOMAIN epochs'
              /\ epochs'[i].index = i
              /\ epochs'[i].minted = StepEntry.amount
              /\ epochs'[i].apr = apr
              /\ epochs'[i].stake =
                    [a \in DOMAIN wallets |->
                        wallets[a].staked + wallets[a].rewards]
              /\ epoch_index' = i + 1
              /\ apr' = AprOf(StepEntry.new_apr)]_vars

\* C19 witness: a second reward event was distributed, over an account holding
\* rewards of the earlier epoch and after the APR had moved off its genesis
\* value
C19_Witness ==
    /\ LastKind \in MintKinds
    /\ last.res = "Ok"
    /\ epoch_index = LastEntry.epoch_index + 1
    /\ Cardinality(DOMAIN epochs) = 2
    /\ epochs[LastEntry.epoch_index].apr # GenesisApr
    /\ \E a \in DOMAIN wallets :
          epochs[LastEntry.epoch_index].stake[a] > wallets[a].staked

----------------------------------------------------------------------------
(* The two variants of the reward event, under SpecReward *)

\* what distribute() makes of the step's reward event when it is handed the
\* ledger of the step without a total_stake, as for MintedRewardV0
AsMintedRewardV0 ==
    distribute(wallets, epochs, epoch_index, apr, StepEntry.epoch_index,
               StepEntry.amount, StepEntry.new_apr, None, Get(last'.ev).tm,
               Get(last'.ev).block_number, Get(last'.ev).tx)

\* C12 (as claimed): a MintedReward event leaves the Epoch.total and the
\* rewards of every account that a MintedRewardV0 event with the same
\* epoch_index, amount and new_apr leaves from the same ledger, whatever
\* total_stake it carries.
C12_RewardVariantsAgree ==
    [][StepKind = "MintedReward"
        => /\ last'.res = AsMintedRewardV0.res
           /\ last'.res = "Ok" =>
                /\ epochs'[StepEntry.epoch_index].total
                      = AsMintedRewardV0.epochs[StepEntry.epoch_index].total
                /\ \A a \in DOMAIN wallets :
                      wallets'[a].rewards = AsMintedRewardV0.w[a].rewards]_vars

----------------------------------------------------------------------------
(* SpecVariant: the current and the legacy (V0) variant of every non-reward *)
(* kind, and the deposits and withdrawals that decide the supporter flag    *)

CurrentKinds == {"Deposited", "Withdrawn", "Staked", "ScheduledUnstake",
                 "Unstaked", "Delegated", "Undelegated"}
LegacyKinds == {k \o "V0" : k \in CurrentKinds}

\* the fields a current variant carries and update() binds to `_`
ExtraFields(kind) ==
    CASE kind \in {"Deposited", "Withdrawn", "DepositedByTimelockManager"}
            -> {"user_unstaked"}
      [] kind = "DepositedVesting"
            -> {"start", "end", "user_unstaked", "user_vesting"}
      [] kind = "Staked"
            -> {"user_unstaked", "user_shares", "total_shares", "total_stake"}
      [] kind = "ScheduledUnstake" -> {"user_shares"}
      [] kind = "Unstaked" -> {"user_unstaked", "total_shares", "total_stake"}
      [] kind \in {"Delegated", "Undelegated"} -> {"total_delegated_to"}
      [] OTHER -> {}

\* the current variant of a payload: its extra fields all carry x
WithExtras(entry, x) ==
    [f \in (DOMAIN entry) \cup ExtraFields(entry.kind) |->
        IF f \in DOMAIN entry THEN entry[f] ELSE x]

\* the legacy variant carrying the same user / amount / shares / target
LegacyOf(entry) ==
    [f \in (DOMAIN entry) \ ExtraFields(entry.kind) |->
        IF f = "kind" THEN entry.kind \o "V0" ELSE entry[f]]

\* the current variant of a legacy event, its extra fields carrying x
CurrentOf(entry, x) ==
    WithExtras([entry EXCEPT !.kind = CHOOSE c \in CurrentKinds : c \o "V0" = @],
               x)

\* one payload delivered as its legacy or as its current variant
Variant(payload, v0, x) ==
    update(IF v0 THEN LegacyOf(payload) ELSE WithExtras(payload, x))

VariantDepositedStep ==
    /\ clock < MaxVariantEvents
    /\ \E u \in Addr, v0 \in BOOLEAN :
          Variant([kind |-> "Deposited", user |-> u, amount |-> 1], v0, 3)
    /\ UNCHANGED <<rt, server>>

VariantDepositedVestingStep ==
    /\ clock < MaxVariantEvents
    /\ \E u \in Addr :
          update(WithExtras([kind |-> "DepositedVesting", user |-> u,
                             amount |-> 1], 3))
    /\ UNCHANGED <<rt, server>>

VariantWithdrawnStep ==
    /\ clock < MaxVariantEvents
    /\ \E u \in Addr, v0 \in BOOLEAN :
          Variant([kind |-> "Withdrawn", user |-> u, amount |-> 1], v0, 3)
    /\ UNCHANGED <<rt, server>>

VariantStakedStep ==
    /\ clock < MaxVariantEvents
    /\ \/ \E u \in Addr :
             Variant([kind |-> "Staked", user |-> u, amount |-> 1,
                      minted_shares |-> 2], TRUE, 0)
       \/ \E u \in Addr, x \in Extras :
             Variant([kind |-> "Staked", user |-> u, amount |-> 1,
                      minted_shares |-> 2], FALSE, x)
    /\ UNCHANGED <<rt, server>>

VariantScheduledUnstakeStep ==
    /\ clock < MaxVariantEvents
    /\ \E u \in Addr, v0 \in BOOLEAN :
          Variant([kind |-> "ScheduledUnstake", user |-> u, amount |-> 2,
                   shares |-> 1, scheduled_for |-> clock + 2], v0, 3)
    /\ UNCHANGED <<rt, server>>

VariantUnstakedStep ==
    /\ clock < MaxVariantEvents
    /\ \E u \in Addr, v0 \in BOOLEAN :
          Variant([kind |-> "Unstaked", user |-> u, amount |-> 1], v0, 3)
    /\ UNCHANGED <<rt, server>>

VariantDelegatedStep ==
    /\ clock < MaxVariantEvents
    /\ \E from \in Addr, v0 \in BOOLEAN :
          \E to \in Addr \ {from} :
             Variant([kind |-> "Delegated", from |-> from, to |-> to,
                      shares |-> 1], v0, 3)
    /\ UNCHANGED <<rt, server>>

VariantUndelegatedStep ==
    /\ clock < MaxVariantEvents
    /\ \E from \in Addr, v0 \in BOOLEAN :
          \E to \in Addr \ {from} :
             Variant([kind |-> "Undelegated", from |-> from, to |-> to,
                      shares |-> 1], v0, 3)
    /\ UNCHANGED <<rt, server>>

NextVariant ==
    \/ VariantDepositedStep
    \/ VariantDepositedVestingStep
    \/ VariantWithdrawnStep
    \/ VariantStakedStep
    \/ VariantScheduledUnstakeStep
    \/ VariantUnstakedStep
    \/ VariantDelegatedStep
    \/ VariantUndelegatedStep

SpecVariant == Init /\ [][NextVariant]_vars

\* what update()'s match makes of the other variant of the step's event on
\* the ledger of the step, the extra fields of a current variant carrying x
TwinOutcome(x) ==
    Handle([Get(last'.ev) EXCEPT !.entry =
               IF StepKind \in CurrentKinds THEN LegacyOf(StepEntry)
               ELSE CurrentOf(StepEntry, x)],
           PreCall, epochs, epoch_index, apr, votings, vested)

\* C13: from the same ledger, the current and the legacy variant of Deposited,
\* Withdrawn, Staked, ScheduledUnstake, Unstaked, Delegated and Undelegated
\* with the same user / amount / shares / target leave the same accounts and
\* the same outcome, whatever the extra fields of the current variant carry.
C13_VariantsAgree ==
    [][(StepKind \in CurrentKinds \cup LegacyKinds)
        => (\A x \in Extras :
              /\ TwinOutcome(x).w = wallets'
              /\ TwinOutcome(x).res = last'.res
              /\ TwinOutcome(x).exit = (status' = "exited"))]_vars

\* C13 witness: a current Staked event, whose user_shares differ from the
\* shares the account ends with, was applied to an account that a legacy
\* DelegatedV0 event had made a delegator
C13_Witness ==
    /\ LastKind = "Staked"
    /\ last.res = "Ok"
    /\ LastEntry.user_shares # wallets[LastEntry.user].shares
    /\ wallets[LastEntry.user].delegates # None
    /\ \E i \in 1..Len(wallets_events[LastEntry.user]) :
          wallets_events[LastEntry.user][i].entry.kind = "DelegatedV0"

\* the voting power update_voting_power() derives from the account's fields
Recomputed(w) ==
    w.voting_power = (IF w.delegates # None THEN 0 ELSE w.shares)
                     + SumValues(w.delegated)

\* the fields of an account that staking and unstaking leave alone
Untouched(w) ==
    [address |-> w.address, vested |-> w.vested, vested_amount |-> w.vested_amount,
     deposited |-> w.deposited, withdrawn |-> w.withdrawn, votes |-> w.votes,
     rewards |-> w.rewards, created_at |-> w.created_at, updated_at |-> w.updated_at]

----------------------------------------------------------------------------
(* Claims on undelegate and scheduled_unstake, under Spec *)

UndelegatedKinds == {"Undelegated", "UndelegatedV0"}

\* the delegator's recorded target as the step's handler finds it, or None
StepTarget == PreCall[StepEntry.from].delegates

\* C14 (as claimed): undelegate(from, to, shares) called while from delegates
\* to `to` with shares > from.shares reports an error and yet clears the
\* delegation on both sides: to.delegated has no entry of from and
\* from.delegates is None.
C14_ExcessiveSharesClears ==
    [][(/\ StepKind \in UndelegatedKinds
        /\ StepTarget # None
        /\ Get(StepTarget).address = StepEntry.to
        /\ StepEntry.shares > PreCall[StepEntry.from].shares)
        => /\ last'.res = "Err"
           /\ StepEntry.from \notin DOMAIN wallets'[StepEntry.to].delegated
           /\ wallets'[StepEntry.from].delegates = None]_vars

\* C15: undelegate(from, to, shares) returns an error and changes no account
\* when from's recorded target is an address other than `to`; when the target
\* is `to` and shares <= from.shares it succeeds, removes from from
\* to.delegated, sets from.delegates to None and recomputes the voting power
\* of both, changing neither staked nor shares of any account.
C15_UndelegateTarget ==
    [][(StepKind \in UndelegatedKinds)
        => LET from == StepEntry.from
               to == StepEntry.to
           IN /\ (StepTarget # None /\ Get(StepTarget).address # to)
                   => (last'.res = "Err" /\ wallets' = PreCall)
              /\ (/\ StepTarget # None
                  /\ Get(StepTarget).address = to
                  /\ StepEntry.shares <= PreCall[from].shares)
                   => /\ last'.res = "Ok"
                      /\ wallets'[to].delegated
                            = RemoveKey(PreCall[to].delegated, from)
                      /\ wallets'[from].delegates = None
                      /\ Recomputed(wallets'[from])
                      /\ Recomputed(wallets'[to])
                      /\ \A a \in DOMAIN wallets' :
                            /\ wallets'[a].staked = PreCall[a].staked
                            /\ wallets'[a].shares = PreCall[a].shares
                            /\ a \notin {from, to} => wallets'[a] = PreCall[a]]_vars

\* C15 witness: an account holding shares delegated to another account and
\* then undelegated from it with no more than its shares; the target's voting
\* power is back to its own shares
C15_Witness ==
    /\ LastKind \in UndelegatedKinds
    /\ last.res = "Ok"
    /\ LastEntry.from # LastEntry.to
    /\ wallets[LastEntry.from].shares > 0
    /\ LastEntry.shares > 0
    /\ \E i \in 1..Len(wallets_events[LastEntry.from]) :
          LET e == wallets_events[LastEntry.from][i]
          IN /\ e.tm = clock - 1
             /\ e.entry.kind = "Delegated"
             /\ e.entry.from = LastEntry.from
             /\ e.entry.to = LastEntry.to
    /\ wallets[LastEntry.to].delegated = EmptyMap
    /\ wallets[LastEntry.from].voting_power = wallets[LastEntry.from].shares

\* C18: a scheduled_unstake(user, amount, shares, scheduled_for) that succeeds
\* sets the reservation to {min(amount, staked before), shares, scheduled_for},
\* whatever it was, takes min(amount, staked before) off staked and shares off
\* shares without going below zero, clears supporter, and for a delegating
\* account sets delegates.shares and the target's delegated[user] to the new
\* shares and recomputes the voting power of both.
C18_ScheduledUnstakeEffect ==
    [][(StepKind \in ScheduleKinds /\ last'.res = "Ok")
        => LET u == StepEntry.user
               pre == PreCall[u]
               post == wallets'[u]
               cut == IF StepEntry.amount < pre.staked THEN StepEntry.amount
                      ELSE pre.staked
           IN /\ post.scheduled_unstake =
                    Some([amount |-> cut, shares |-> StepEntry.shares,
                          tm |-> StepEntry.scheduled_for])
              /\ post.staked = pre.staked - cut
              /\ post.shares = pre.shares - StepEntry.shares
              /\ post.staked >= 0
              /\ post.shares >= 0
              /\ ~post.supporter
              /\ Untouched(post) = Untouched(pre)
              /\ Recomputed(post)
              /\ IF pre.delegates = None THEN post.delegates = None
                 ELSE LET to == Get(pre.delegates).address
                      IN /\ post.delegates =
                               Some([Get(pre.delegates) EXCEPT
                                        !.shares = post.shares])
                         /\ wallets'[to].delegated[u] = post.shares
                         /\ Recomputed(wallets'[to])]_vars

\* C18 witness: a delegating account scheduled the unstaking of more than it
\* had staked and of fewer shares than it held: the reservation holds the
\* clamped amount and the target's delegated entry the remaining shares
C18_Witness ==
    /\ LastKind \in ScheduleKinds
    /\ last.res = "Ok"
    /\ LET w == wallets[LastEntry.user]
       IN /\ Get(w.scheduled_unstake).amount < LastEntry.amount
          /\ w.staked = 0
          /\ w.shares > 0
          /\ w.delegates # None
          /\ Get(w.delegates).address # LastEntry.user
          /\ wallets[Get(w.delegates).address].delegated[LastEntry.user] = w.shares

----------------------------------------------------------------------------
(* SpecDeleg: delegations among three accounts, the Delegated payload       *)
(* carrying shares that differ from the delegator's                         *)

DelegStakedStep ==
    /\ clock < MaxDelegEvents
    /\ \E u \in Addr3 : Staked(u, 1, 1, FALSE)
    /\ UNCHANGED <<rt, server>>

DelegDelegatedStep ==
    /\ clock < MaxDelegEvents
    /\ \E from \in Addr3, to \in Addr3, shares \in PayloadShares :
          Delegated(from, to, shares, FALSE)
    /\ UNCHANGED <<rt, server>>

NextDeleg ==
    \/ DelegStakedStep
    \/ DelegDelegatedStep

SpecDeleg == Init /\ [][NextDeleg]_vars

DelegatedKinds == {"Delegated", "DelegatedV0"}

\* C16: after a delegate(from, to, tm) that succeeds, from.delegates is
\* {to, from.shares, tm} and to.delegated[from] is from.shares; if from
\* delegated to another account before, that account's delegated has no entry
\* of from and its voting power is recomputed; the shares of the Delegated
\* payload have no influence on the accounts.
C16_DelegateEffect ==
    [][(StepKind \in DelegatedKinds /\ last'.res = "Ok")
        => LET from == StepEntry.from
               to == StepEntry.to
               e == Get(last'.ev)
           IN /\ wallets'[from].shares = PreCall[from].shares
              /\ wallets'[from].delegates =
                    Some([address |-> to, shares |-> PreCall[from].shares,
                          tm |-> e.tm])
              /\ from \in DOMAIN wallets'[to].delegated
              /\ wallets'[to].delegated[from] = PreCall[from].shares
              /\ Recomputed(wallets'[from])
              /\ Recomputed(wallets'[to])
              /\ (StepTarget # None /\ Get(StepTarget).address # to)
                   => LET old == Get(StepTarget).address
                      IN /\ from \notin DOMAIN wallets'[old].delegated
                         /\ Recomputed(wallets'[old])
              /\ \A s \in PayloadShares \cup Amounts :
                    Handle([e EXCEPT !.entry.shares = s], PreCall, epochs,
                           epoch_index, apr, votings, vested).w = wallets']_vars

\* C16 witness: an account holding shares moved its delegation from one
\* account to another with an event whose payload shares are not its shares
C16_Witness ==
    /\ LastKind \in DelegatedKinds
    /\ last.res = "Ok"
    /\ LastEntry.from # LastEntry.to
    /\ wallets[LastEntry.from].shares > 0
    /\ LastEntry.shares # wallets[LastEntry.from].shares
    /\ wallets[LastEntry.to].delegated[LastEntry.from]
          = wallets[LastEntry.from].shares
    /\ \E i \in 1..Len(wallets_events[LastEntry.from]) :
          LET e == wallets_events[LastEntry.from][i]
          IN /\ e.tm = clock - 1
             /\ e.entry.kind \in DelegatedKinds
             /\ e.entry.from = LastEntry.from
             /\ e.entry.to \notin {LastEntry.from, LastEntry.to}
             /\ wallets[e.entry.to].delegated = EmptyMap
             /\ wallets[e.entry.to].voting_power = wallets[e.entry.to].shares

----------------------------------------------------------------------------
(* The tallies of the proposals, under SpecVote *)

\* C20: every proposal has voted_yes = the sum of its yes map and voted_no =
\* the sum of its no map, after every event.
C20_TallySums ==
    \A key \in DOMAIN votings :
        /\ votings[key].voted_yes = SumValues(votings[key].yes)
        /\ votings[key].voted_no = SumValues(votings[key].no)

\* C20 witness: a proposal whose creator holds voting power has, after a
\* vote of another account against it, entries on both sides
C20_Witness ==
    /\ LastKind = "CastVote"
    /\ \E key \in DOMAIN votings :
          /\ (DOMAIN votings[key].yes) \cap (DOMAIN votings[key].no) = {}
          /\ votings[key].voted_yes > 0
          /\ votings[key].voted_no > 0
          /\ votings[key].yes # EmptyMap
          /\ votings[key].no # EmptyMap

\* the key of the proposal the step's event names
StepKey == voting_to_u64(StepEntry.agent, StepEntry.vote_id)

\* C21: StartVote{agent, vote_id, creator} leaves under the key of (agent,
\* vote_id) a proposal with yes = {creator: the creator's voting power at that
\* moment}, no empty, voted_no = 0, executed = false and votes_total = the sum
\* of voting_power over all accounts at that moment, and adds one to the
\* creator's votes; CastVote and ExecuteVote change no proposal's votes_total.
C21_StartVoteEffect ==
    [][/\ StepKind = "StartVote"
            => LET v == votings'[StepKey]
                   creator == StepEntry.creator
               IN /\ DOMAIN votings' = (DOMAIN votings) \cup {StepKey}
                  /\ v.creator = creator
                  /\ v.vote_id = StepEntry.vote_id
                  /\ v.primary = (StepEntry.agent = "Primary")
                  /\ DOMAIN v.yes = {creator}
                  /\ v.yes[creator] = PreCall[creator].voting_power
                  /\ v.voted_yes = PreCall[creator].voting_power
                  /\ v.no = EmptyMap
                  /\ v.voted_no = 0
                  /\ ~v.executed
                  /\ v.votes_total = get_votes_total(PreCall)
                  /\ wallets'[creator].votes = PreCall[creator].votes + 1
                  /\ \A key \in (DOMAIN votings) \ {StepKey} :
                        votings'[key] = votings[key]
       /\ StepKind \in {"CastVote", "ExecuteVote"}
            => /\ DOMAIN votings' = DOMAIN votings
               /\ \A key \in DOMAIN votings :
                     votings'[key].votes_total = votings[key].votes_total]_vars

\* C21 witness: a proposal was started by an account holding part of the
\* DAO's voting power
C21_Witness ==
    /\ LastKind = "StartVote"
    /\ LET v == votings[voting_to_u64(LastEntry.agent, LastEntry.vote_id)]
       IN /\ v.yes[LastEntry.creator] > 0
          /\ v.votes_total > v.yes[LastEntry.creator]
          /\ wallets[LastEntry.creator].votes = 1

\* the proposals an account's log shows it voted on, as creator or voter
VotedOn(a) ==
    {voting_to_u64(wallets_events[a][i].entry.agent,
                   wallets_events[a][i].entry.vote_id) :
        i \in {j \in 1..Len(wallets_events[a]) :
                  wallets_events[a][j].entry.kind \in {"StartVote", "CastVote"}}}

\* no proposal was started more than once
StartedOnce ==
    \A key \in DOMAIN votings_events :
        Cardinality({i \in 1..Len(votings_events[key]) :
                       votings_events[key][i].entry.kind = "StartVote"}) <= 1

\* C22 (as claimed): the votes counter of every account is the number of
\* distinct proposals it has voted on, as creator or by CastVote, repeated
\* votes on one proposal included (every proposal being started once).
C22_VotesCountProposals ==
    StartedOnce =>
        \A a \in DOMAIN wallets : wallets[a].votes = Cardinality(VotedOn(a))

\* C23: a CastVote whose (agent, vote_id) names no existing proposal creates no
\* proposal and changes none, and adds one to the voter's votes.
C23_CastVoteUnknown ==
    [][(StepKind = "CastVote" /\ StepKey \notin DOMAIN votings)
        => /\ votings' = votings
           /\ wallets'[StepEntry.voter].votes
                 = PreCall[StepEntry.voter].votes + 1
           /\ last'.res = "Ok"]_vars

\* C23 witness: a vote was cast on a proposal that does not exist while
\* another proposal does
C23_Witness ==
    /\ LastKind = "CastVote"
    /\ voting_to_u64(LastEntry.agent, LastEntry.vote_id) \notin DOMAIN votings
    /\ votings # EmptyMap
    /\ wallets[LastEntry.voter].votes > 0

\* C24: ExecuteVote for an existing proposal sets executed and leaves its yes,
\* no, voted_yes, voted_no and votes_total as they were; for an absent
\* proposal it creates none; either way no other proposal changes.
C24_ExecuteVoteEffect ==
    [][(StepKind = "ExecuteVote")
        => /\ DOMAIN votings' = DOMAIN votings
           /\ \A key \in DOMAIN votings :
                 IF key = StepKey
                 THEN votings'[key] = [votings[key] EXCEPT !.executed = TRUE]
                 ELSE votings'[key] = votings[key]
           /\ wallets' = wallets]_vars

\* C24 witness: a proposal with votes on both sides was executed
C24_Witness ==
    /\ LastKind = "ExecuteVote"
    /\ voting_to_u64(LastEntry.agent, LastEntry.vote_id) \in DOMAIN votings
    /\ LET v == votings[voting_to_u64(LastEntry.agent, LastEntry.vote_id)]
       IN v.executed /\ v.yes # EmptyMap /\ v.no # EmptyMap

----------------------------------------------------------------------------
(* The supporter flag.                                                     *)

\* C27: after every applied event, every account marked a supporter has
\* withdrawn nothing and holds no vesting deposit.
C27_SupporterSound ==
    \A a \in DOMAIN wallets :
        wallets[a].supporter =>
            /\ wallets[a].withdrawn = 0
            /\ wallets[a].vested_amount = None

\* one account staked and became a supporter; another withdrew, then staked,
\* and is not one
C27_Witness ==
    /\ LastKind \in {"Staked", "StakedV0"}
    /\ last.res = "Ok"
    /\ \E a \in DOMAIN wallets, b \in DOMAIN wallets :
          /\ wallets[a].supporter
          /\ wallets[a].staked > 0
          /\ wallets[b].withdrawn > 0
          /\ wallets[b].staked > 0
          /\ b = LastEntry.user
          /\ ~wallets[b].supporter

----------------------------------------------------------------------------
(* SpecLog: the account records and the event logs kept by update(), over   *)
(* events that reference one account, two accounts, a proposal, and over    *)
(* handlers that fail.  A delegation event here names two different         *)
(* accounts.                                                                *)

LogStakedStep ==
    /\ clock < MaxLogEvents
    /\ \E u \in Addr : Staked(u, 1, 1, FALSE)
    /\ UNCHANGED <<rt, server>>

LogDelegatedStep ==
    /\ clock < MaxLogEvents
    /\ \E from \in Addr : \E to \in Addr \ {from} :
          Delegated(from, to, 0, FALSE)
    /\ UNCHANGED <<rt, server>>

LogUndelegatedStep ==
    /\ clock < MaxLogEvents
    /\ \E from \in Addr, shares \in {0, 1} : \E to \in Addr \ {from} :
          Undelegated(from, to, shares, FALSE)
    /\ UNCHANGED <<rt, server>>

LogStartVoteStep ==
    /\ clock < MaxLogEvents
    /\ \E agent \in Agents, creator \in Addr :
          StartVoteEvent(agent, 1, creator, Metadata)
    /\ UNCHANGED <<rt, server>>

LogCastVoteStep ==
    /\ clock < MaxLogEvents
    /\ \E agent \in Agents, voter \in Addr, supports \in BOOLEAN :
          CastVoteEvent(agent, 1, voter, supports, 1)
    /\ UNCHANGED <<rt, server>>

LogExecuteVoteStep ==
    /\ clock < MaxLogEvents
    /\ \E agent \in Agents : ExecuteVoteEvent(agent, 1)
    /\ UNCHANGED <<rt, server>>

NextLog ==
    \/ LogStakedStep
    \/ LogDelegatedStep
    \/ LogUndelegatedStep
    \/ LogStartVoteStep
    \/ LogCastVoteStep
    \/ LogExecuteVoteStep

SpecLog == Init /\ [][NextLog]_vars

\* the accounts the step's event references
StepRefs == {get_wallets(StepEntry)[i] : i \in 1..Len(get_wallets(StepEntry))}

\* the event of the step being taken
StepEvent == Get(last'.ev)

\* C25: an account record is created by the first event that references its
\* address, with created_at that event's timestamp; no account is ever
\* removed, created_at never changes, and updated_at is the timestamp of the
\* latest event referencing the account.
C25_AccountLifecycle ==
    [][/\ DOMAIN wallets' = DOMAIN wallets \cup StepRefs
       /\ \A a \in StepRefs \ DOMAIN wallets :
             wallets'[a].created_at = StepEvent.tm
       /\ \A a \in DOMAIN wallets :
             wallets'[a].created_at = wallets[a].created_at
       /\ \A a \in StepRefs : wallets'[a].updated_at = StepEvent.tm
       /\ \A a \in DOMAIN wallets \ StepRefs :
             wallets'[a].updated_at = wallets[a].updated_at]_vars

\* the last event created one account and touched an older one, while a
\* third event in between left a stamp of its own
C25_Witness ==
    /\ Delivered
    /\ \E a \in DOMAIN wallets, b \in DOMAIN wallets :
          /\ wallets[a].created_at = Get(last.ev).tm
          /\ wallets[b].created_at < wallets[b].updated_at
          /\ wallets[b].updated_at = Get(last.ev).tm
          /\ wallets[b].created_at = 1
          /\ Get(last.ev).tm > 2

----------------------------------------------------------------------------
(* The server: State::on with its fan-out to the websocket subscribers,     *)
(* ws_connected / ws_disconnected, and main()'s switch to live mode.        *)

\* the message sent for an event: Message::text(serde_json::to_string(&e))
MessageOf(e) == [text |-> e]

\* a mutant: the loop over the subscribers stops at a failed send
Broadcast_stops_on_failure(qs, subs, open, msg) ==
    IF \E id \in subs : ~open[id] THEN qs
    ELSE [id \in DOMAIN qs |->
            IF id \in subs THEN Append(qs[id], msg) ELSE qs[id]]

\* the queues after the loop of State::on: tx.send() enqueues on the channel
\* of each registered subscriber, and fails (with a warning only) on a
\* channel whose receiving half is gone
Broadcast(qs, subs, open, msg) ==
    [id \in DOMAIN qs |->
        IF id \in subs /\ open[id] THEN Append(qs[id], msg) ELSE qs[id]]

\* State::on: apply the event, then fan it out when in live mode.  A panic
\* or an exit inside update() ends the call before the fan-out.
on(entry) ==
    /\ update(entry)
    /\ queues' = IF verbose /\ status' = "running"
                 THEN Broadcast(queues, subscribers, rx_open,
                                MessageOf(Get(last'.ev)))
                 ELSE queues

\* a mutant: the subscriber stays in the map
ws_disconnected_keeps(subs, id) == subs

\* ws_disconnected: the subscriber is removed from the map
ws_disconnected(subs, id) == subs \ {id}

\* the ledger as a request handler clones it
Ledger ==
    [wallets |-> wallets, wallets_events |-> wallets_events,
     votings |-> votings, votings_events |-> votings_events,
     epochs |-> epochs, epoch_index |-> epoch_index, apr |-> apr,
     last_block |-> last_block, vested |-> vested]

\* main(): the historical scan is over and live mode starts: verbose is set,
\* the ingestion task is spawned and the routes, /ws among them, are served
WatchStep ==
    /\ mode = "scan"
    /\ status = "running"
    /\ mode' = "watch"
    /\ verbose' = TRUE
    /\ lock' = "free"
    /\ history' = {Ledger}
    /\ UNCHANGED <<ledger, status, clock, last, rt, subscribers, next_id, conn,
                   queues, rx_open, pending, rendered,
                   responses>>

\* an event delivered to State::on, during the scan or in live mode
LiveOnStep ==
    /\ clock < MaxLiveEvents
    /\ \E u \in {"a1"} :
          \/ on([kind |-> "Staked", user |-> u, amount |-> 1, minted_shares |-> 1])
          \/ on([kind |-> "Unstaked", user |-> u, amount |-> 1])
    /\ UNCHANGED <<rt, mode, verbose, subscribers, next_id, conn, rx_open, lock,
                   pending, rendered,
                   responses, history>>

\* ws_connected up to the insert: a new id and a new unbounded channel, whose
\* receiving half is moved into the forwarding task
WsConnectedStep ==
    /\ mode = "watch"
    /\ next_id <= MaxSubscribers
    /\ next_id' = next_id + 1
    /\ conn' = Insert(conn, next_id, "connecting")
    /\ queues' = Insert(queues, next_id, <<>>)
    /\ rx_open' = Insert(rx_open, next_id, TRUE)
    /\ UNCHANGED <<ledger, status, clock, last, rt, mode, verbose, subscribers,
                   lock, pending, rendered,
                   responses, history>>

\* ws_connected: subscribers.write().await.insert(subscriber_id, tx)
WsInsertStep ==
    /\ \E id \in DOMAIN conn :
          /\ conn[id] = "connecting"
          /\ subscribers' = subscribers \cup {id}
          /\ conn' = [conn EXCEPT ![id] = "reading"]
    /\ UNCHANGED <<ledger, status, clock, last, rt, mode, verbose, next_id,
                   queues, rx_open, lock, pending, rendered,
                   responses, history>>

\* the forwarding task, which writes to the socket when it has a message to
\* forward, ends on a websocket send error and drops the receiving half of
\* the channel
WsForwardEndStep ==
    /\ \E id \in DOMAIN conn :
          /\ rx_open[id]
          /\ queues[id] # <<>>
          /\ rx_open' = [rx_open EXCEPT ![id] = FALSE]
    /\ UNCHANGED <<ledger, status, clock, last, rt, mode, verbose, subscribers,
                   next_id, conn, queues, lock, pending, rendered,
                   responses, history>>

\* ws_connected: the incoming stream ends or yields an error, the loop is left
WsStreamEndStep ==
    /\ \E id \in DOMAIN conn :
          /\ conn[id] = "reading"
          /\ conn' = [conn EXCEPT ![id] = "closing"]
    /\ UNCHANGED <<ledger, status, clock, last, rt, mode, verbose, subscribers,
                   next_id, queues, rx_open, lock, pending, rendered,
                   responses, history>>

\* ws_disconnected
WsDisconnectedStep ==
    /\ \E id \in DOMAIN conn :
          /\ conn[id] = "closing"
          /\ subscribers' = ws_disconnected(subscribers, id)
          /\ conn' = [conn EXCEPT ![id] = "closed"]
    /\ UNCHANGED <<ledger, status, clock, last, rt, mode, verbose, next_id,
                   queues, rx_open, lock, pending, rendered,
                   responses, history>>

NextLive ==
    \/ WatchStep
    \/ LiveOnStep
    \/ WsConnectedStep
    \/ WsInsertStep
    \/ WsForwardEndStep
    \/ WsStreamEndStep
    \/ WsDisconnectedStep

SpecLive == Init /\ [][NextLive]_vars

\* ws_disconnected follows the end of the loop in the same task, and its
\* write lock is only ever held for one insert or remove
SpecLiveFair == SpecLive /\ WF_vars(WsDisconnectedStep)

\* the step being taken delivers an event to State::on
EventStep == clock' = clock + 1

\* the messages of a queue
Enqueued(id) == {queues[id][i] : i \in 1..Len(queues[id])}

\* C28: in live mode an event handled by State::on is applied to the ledger
\* and then enqueued once on the queue of every registered subscriber, a
\* subscriber whose send fails not stopping the others; every queue holds
\* its events in the order of application; nothing is enqueued by any other
\* step, nor while live mode is off.
C28_LiveFanOut ==
    [][/\ (EventStep /\ verbose /\ status' = "running") =>
             /\ last_block' = StepEvent.block_number
             /\ \A a \in StepRefs :
                   wallets_events'[a][Len(wallets_events'[a])] = StepEvent
             /\ \A id \in DOMAIN queues :
                   queues'[id] =
                      IF id \in subscribers /\ rx_open[id]
                      THEN Append(queues[id], MessageOf(StepEvent))
                      ELSE queues[id]
       /\ (~EventStep \/ ~verbose) =>
             (\A id \in DOMAIN queues : queues'[id] = queues[id])
       /\ ~verbose' => (\A id \in DOMAIN queues' : queues'[id] = <<>>)
       /\ \A id \in DOMAIN queues' :
             \A i \in 1..Len(queues'[id]), j \in 1..Len(queues'[id]) :
                (i < j) => (queues'[id][i].text.tm < queues'[id][j].text.tm)]_vars

\* two subscribers are registered; the send to one has failed, the other
\* holds the last two events in order
C28_Witness ==
    /\ Delivered
    /\ status = "running"
    /\ \E id \in subscribers, other \in subscribers :
          /\ ~rx_open[id]
          /\ MessageOf(Get(last.ev)) \notin Enqueued(id)
          /\ rx_open[other]
          /\ Len(queues[other]) >= 2
          /\ queues[other][Len(queues[other])] = MessageOf(Get(last.ev))

\* the ids a subscriber may get
SubscriberIds == 1..(MaxSubscribers + 1)

\* C29: a subscriber is in the map from ws_connected's insert until
\* ws_disconnected; once its incoming stream has ended or failed it is
\* eventually removed; an id that is not in the map is enqueued nothing; and
\* only ws_connected and ws_disconnected change the map, so a failed send
\* removes nobody.
C29_Deregistration ==
    /\ [](\A id \in DOMAIN conn :
            (id \in subscribers) <=> (conn[id] \in {"reading", "closing"}))
    /\ [][/\ \A id \in DOMAIN queues :
                (id \notin subscribers) => (queues'[id] = queues[id])
          /\ \A id \in subscribers' \ subscribers : conn[id] = "connecting"
          /\ \A id \in subscribers \ subscribers' : conn[id] = "closing"
          /\ EventStep => (subscribers' = subscribers)]_vars
    /\ \A id \in SubscriberIds :
          (id \in DOMAIN conn /\ conn[id] = "closing")
             ~> (id \notin subscribers)

\* a subscriber that received an event was removed after its stream ended,
\* and the event delivered since is not on its queue; another subscriber is
\* still registered although its channel is closed
C29_Witness ==
    /\ Delivered
    /\ status = "running"
    /\ \E id \in DOMAIN conn, other \in subscribers :
          /\ conn[id] = "closed"
          /\ id \notin subscribers
          /\ Len(queues[id]) >= 1
          /\ MessageOf(Get(last.ev)) \notin Enqueued(id)
          /\ ~rx_open[other]
          /\ MessageOf(Get(last.ev)) \notin Enqueued(other)

----------------------------------------------------------------------------
(* SpecServe: the ingestion task and the request handlers around the Mutex  *)
(* that guards State.  update() is taken in two steps, so that the ledger   *)
(* in the middle of an event is a state of the model.                       *)

\* a mutant: the Mutex lets everyone in
Available_always(l) == TRUE

\* Mutex::lock() returns when nobody holds the lock; on a poisoned lock the
\* unwrap() of the callers panics
Available(l) == l = "free"

\* the ingestion task takes the lock to hand the next event to State::on
IngestLockStep ==
    /\ mode = "watch"
    /\ status = "running"
    /\ clock < MaxServeEvents
    /\ pending = None
    /\ Available(lock)
    /\ lock' = "ingest"
    /\ UNCHANGED <<ledger, status, clock, last, rt, mode, verbose, subscribers,
                   next_id, conn, queues, rx_open, pending, rendered,
                   responses, history>>

\* update(), first part: last_block, the records and the logs
update_begin(entry) ==
    LET e == OnChainEvent(entry, clock + 1)
    IN /\ last_block' = e.block_number
       /\ wallets' = Materialize(wallets, get_wallets(entry), e.tm)
       /\ wallets_events' = PushAll(wallets_events, get_wallets(entry), e)
       /\ votings_events' = PushVoting(votings_events, get_voting(entry), e)
       /\ pending' = Some(e)
       /\ UNCHANGED <<votings, epochs, epoch_index, apr, vested, status, clock,
                      last>>

\* update(), second part: the match over the event kinds
update_end ==
    LET e == Get(pending)
        r == Handle(e, wallets, epochs, epoch_index, apr, votings, vested)
    IN /\ wallets' = r.w
       /\ epochs' = r.epochs
       /\ epoch_index' = r.epoch_index
       /\ apr' = r.apr
       /\ votings' = r.votings
       /\ vested' = r.vested
       /\ status' = IF r.res = "Panic" THEN "panicked"
                    ELSE IF r.exit THEN "exited" ELSE "running"
       /\ last' = [ev |-> Some(e), res |-> r.res]
       /\ clock' = clock + 1
       /\ pending' = None
       /\ UNCHANGED <<last_block, wallets_events, votings_events>>

IngestBeginStep ==
    /\ lock = "ingest"
    /\ mode = "watch"
    /\ pending = None
    /\ \/ \E u \in Addr :
             update_begin([kind |-> "Staked", user |-> u, amount |-> 1,
                           minted_shares |-> 1])
       \/ update_begin([kind |-> "Unstaked", user |-> "a1", amount |-> 1])
    /\ UNCHANGED <<rt, mode, verbose, subscribers, next_id, conn, queues,
                   rx_open, lock, rendered,
                   responses, history>>

\* the rest of State::on and the release of the lock; a panic inside
\* update() poisons the Mutex
IngestEndStep ==
    /\ lock = "ingest"
    /\ pending # None
    /\ update_end
    /\ queues' = IF verbose /\ status' = "running"
                 THEN Broadcast(queues, subscribers, rx_open,
                                MessageOf(Get(last'.ev)))
                 ELSE queues
    /\ lock' = IF status' = "running" THEN "free" ELSE "poisoned"
    /\ history' = IF status' = "running" THEN history \cup {Ledger'} ELSE history
    /\ UNCHANGED <<rt, mode, verbose, subscribers, next_id, conn, rx_open,
                   rendered,
                   responses>>

\* a route's closure: state_rc.lock().unwrap()
HandlerLockStep ==
    /\ mode = "watch"
    /\ Available(lock)
    /\ \E h \in Handlers : lock' = h
    /\ UNCHANGED <<ledger, status, clock, last, rt, mode, verbose, subscribers,
                   next_id, conn, queues, rx_open, pending, rendered,
                   responses, history>>

\* a route's closure: state.clone().app is rendered and the guard dropped
HandlerRenderStep ==
    /\ \E h \in Handlers :
          /\ lock = h
          /\ rendered' = [rendered EXCEPT ![h] = Some(Ledger)]
          /\ responses' = [responses EXCEPT ![h] =
                              Some([route |-> "home", arg |-> "", found |-> TRUE,
                                    status |-> 200, body |-> "home"])]
    /\ lock' = "free"
    /\ UNCHANGED <<ledger, status, clock, last, rt, mode, verbose, subscribers,
                   next_id, conn, queues, rx_open, pending, history>>

NextServe ==
    \/ WatchStep
    \/ IngestLockStep
    \/ IngestBeginStep
    \/ IngestEndStep
    \/ HandlerLockStep
    \/ HandlerRenderStep

SpecServe == Init /\ [][NextServe]_vars

\* C30: every ledger a request handler renders is the ledger after a whole
\* prefix of the delivered events; a step taken while a handler holds the
\* lock leaves the ledger as it is; and an event is in the middle of its
\* application only under the ingestion task's lock, which is taken for
\* one event at a time.
C30_SnapshotConsistency ==
    /\ [](/\ \A h \in Handlers :
               (rendered[h] # None) => (Get(rendered[h]) \in history)
          /\ (pending # None) => (lock = "ingest"))
    /\ [][/\ (lock \in Handlers) => UNCHANGED ledger
          /\ (ledger' # ledger) => (lock = "ingest")
          /\ (pending' # None /\ pending' # pending) => (pending = None)]_vars

\* one handler rendered the ledger after the first event, the other the
\* ledger before it, while the second event is in the middle of its
\* application
C30_Witness ==
    /\ pending # None
    /\ clock = 1
    /\ rendered["h1"] # None
    /\ rendered["h2"] # None
    /\ Get(rendered["h1"]).last_block = Get(last.ev).block_number
    /\ Get(rendered["h2"]).last_block = 0
    /\ Get(rendered["h1"]) # Ledger

----------------------------------------------------------------------------
(* SpecRequest: the routes /wallets/<id> and /votings/<id> next to the      *)
(* ingestion task.                                                          *)

\* H160::from_str: the address a path segment spells, if any
H160_from_str(id) == IF id \in Addr3 THEN Some(id) ELSE None

\* the u64 a path segment spells, if any (warp::path!("votings" / u64))
u64_from_str(id) ==
    CASE id = "2" -> Some(2)
      [] id = "3" -> Some(3)
      [] OTHER -> None

\* whether the request names an account / a proposal of the ledger
WalletFound(ws, id) ==
    H160_from_str(id) # None /\ Get(H160_from_str(id)) \in DOMAIN ws

VotingFound(vs, id) ==
    u64_from_str(id) # None /\ Get(u64_from_str(id)) \in DOMAIN vs

Response(route, arg, found, st, body) ==
    Some([route |-> route, arg |-> arg, found |-> found, status |-> st,
          body |-> body])

\* the closure of the route /wallets/<String>
wallet(ws, id) ==
    IF H160_from_str(id) # None
    THEN IF Get(H160_from_str(id)) \in DOMAIN ws
         THEN Response("wallet", id, TRUE, 200, "wallet")
         ELSE Response("wallet", id, FALSE, 400, "Not a member of the DAO")
    ELSE Response("wallet", id, FALSE, 400, "Invalid Ethereum address")

\* the closure of the route /votings/<u64>
voting(vs, id) ==
    IF id \in DOMAIN vs
    THEN Response("voting", id, TRUE, 200, "voting")
    ELSE Response("voting", id, FALSE, 400, "Invalid voting ID")

\* the ingestion task hands an event to State::on under the lock; a panic
\* inside update() poisons the Mutex
RequestOnStep ==
    /\ mode = "watch"
    /\ clock < MaxRequestEvents
    /\ Available(lock)
    /\ \/ on([kind |-> "Staked", user |-> "a1", amount |-> 1, minted_shares |-> 1])
       \/ on([kind |-> "Unstaked", user |-> "a1", amount |-> 1])
       \/ on([kind |-> "StartVote", agent |-> "Primary", vote_id |-> 1,
               creator |-> "a1", metadata |-> Metadata])
    /\ lock' = IF status' = "running" THEN lock ELSE "poisoned"
    /\ history' = IF status' = "running" THEN history \cup {Ledger'} ELSE history
    /\ UNCHANGED <<rt, mode, verbose, subscribers, next_id, conn, rx_open,
                   pending, rendered, responses>>

WalletRequestStep ==
    /\ \E h \in Handlers, id \in WalletPaths :
          /\ lock = h
          /\ responses' = [responses EXCEPT ![h] = wallet(wallets, id)]
          /\ rendered' = [rendered EXCEPT ![h] = Some(Ledger)]
    /\ lock' = "free"
    /\ UNCHANGED <<ledger, status, clock, last, rt, mode, verbose, subscribers,
                   next_id, conn, queues, rx_open, pending, history>>

VotingRequestStep ==
    /\ \E h \in Handlers, id \in VotingPaths :
          /\ lock = h
          /\ u64_from_str(id) # None
          /\ responses' = [responses EXCEPT
                              ![h] = voting(votings, Get(u64_from_str(id)))]
          /\ rendered' = [rendered EXCEPT ![h] = Some(Ledger)]
    /\ lock' = "free"
    /\ UNCHANGED <<ledger, status, clock, last, rt, mode, verbose, subscribers,
                   next_id, conn, queues, rx_open, pending, history>>

\* a path whose last segment is no u64 matches no route: warp's rejection
RejectedRequestStep ==
    /\ mode = "watch"
    /\ \E h \in Handlers, id \in VotingPaths :
          /\ lock # h
          /\ u64_from_str(id) = None
          /\ responses' = [responses EXCEPT
                              ![h] = Response("voting", id, FALSE, 404, "rejection")]
    /\ UNCHANGED <<ledger, status, clock, last, rt, mode, verbose, subscribers,
                   next_id, conn, queues, rx_open, lock, pending, rendered,
                   history>>

\* state_rc.lock().unwrap() on the poisoned Mutex: the closure panics and
\* the request gets no response
PoisonedRequestStep ==
    /\ lock = "poisoned"
    /\ \E h \in Handlers :
          \/ \E id \in WalletPaths :
                responses' = [responses EXCEPT
                    ![h] = Response("wallet", id, WalletFound(wallets, id), 0,
                                    "panic")]
          \/ \E id \in VotingPaths :
                /\ u64_from_str(id) # None
                /\ responses' = [responses EXCEPT
                      ![h] = Response("voting", Get(u64_from_str(id)),
                                      VotingFound(votings, id), 0, "panic")]
    /\ UNCHANGED <<ledger, status, clock, last, rt, mode, verbose, subscribers,
                   next_id, conn, queues, rx_open, lock, pending, rendered,
                   history>>

NextRequest ==
    \/ WatchStep
    \/ RequestOnStep
    \/ HandlerLockStep
    \/ WalletRequestStep
    \/ VotingRequestStep
    \/ RejectedRequestStep
    \/ PoisonedRequestStep

SpecRequest == Init /\ [][NextRequest]_vars

\* the requests for one account or one proposal that have been handled
EntityRequests ==
    {Get(responses[h]) : h \in {x \in Handlers : responses[x] # None}}

\* C31 (as claimed): a request for an account or a proposal that is not in
\* the ledger, or that the path does not spell, is answered with an error
\* response, a request for one that is in the ledger with the page; and no
\* request changes the ledger.
C31_UnknownEntityError ==
    /\ [](\A r \in EntityRequests :
            IF r.found THEN r.status = 200 ELSE r.status \in {400, 404})
    /\ [][(lock \in Handlers \/ lock = "poisoned") => UNCHANGED ledger]_vars

\* the same for the requests handled while the Mutex is not poisoned
C31_UnpoisonedRequests ==
    /\ [](\A r \in EntityRequests :
            (r.body # "panic") =>
               IF r.found THEN r.status = 200 ELSE r.status \in {400, 404})
    /\ [][(lock \in Handlers \/ lock = "poisoned") => UNCHANGED ledger]_vars

----------------------------------------------------------------------------
(* Totals and back-references of the delegation relation, under Spec *)

\* C32 (as claimed): after any sequence of applied events the DAO-wide total
\* voting power equals the DAO-wide total of shares.
C32_VotingPowerConserved ==
    get_votes_total(wallets) = get_shares_total(wallets)

\* C33 (as claimed): whenever to.delegated has the key from, from delegates
\* to that account and the entry equals from's shares; so each account is a
\* key of the delegated map of at most one account.
C33_NoDanglingBackRef ==
    \A to \in DOMAIN wallets : \A from \in DOMAIN wallets[to].delegated :
        /\ from \in DOMAIN wallets
        /\ wallets[from].delegates # None
        /\ Get(wallets[from].delegates).address = to
        /\ wallets[to].delegated[from] = wallets[from].shares

\* an undelegation failed and took the back-reference away; the stake of
\* the account, which still names its delegate, has been raised since, and
\* the back-reference is there again with the new shares
C33_Witness ==
    /\ LastKind = "Staked"
    /\ \E from \in DOMAIN wallets, to \in DOMAIN wallets :
          /\ from # to
          /\ LastEntry.user = from
          /\ from \in DOMAIN wallets[to].delegated
          /\ wallets[to].delegated[from] > 0
          /\ \E i \in 1..Len(wallets_events[from]) :
                wallets_events[from][i].entry.kind = "Undelegated"

----------------------------------------------------------------------------
(* Reward distribution: completion and the queries over the epochs *)

\* C34 (as claimed): distribute completes for every reward event on every
\* reachable ledger: the total does not underflow and the credit does not
\* divide by zero.
C34_DistributeCompletes ==
    (LastKind \in MintKinds) => (last.res # "Panic" /\ status # "panicked")

\* one epoch's term of get_rewards()
EpochReward(epoch, addr, index) ==
    IF addr \notin DOMAIN epoch.stake THEN 0
    ELSE IF epoch.stake[addr] = 0 \/ epoch.index > index THEN 0
    ELSE (epoch.minted * epoch.stake[addr]) \div epoch.total

get_rewards(eps, addr, index) ==
    SumValues([i \in DOMAIN eps |-> EpochReward(eps[i], addr, index)])

get_rewards_for_epoch(eps, addr, index) ==
    IF index > 1
    THEN get_rewards(eps, addr, index) - get_rewards(eps, addr, index - 1)
    ELSE 0

\* the largest stored epoch index, 0 when there is none
MaxEpochIndex(eps) ==
    IF DOMAIN eps = {} THEN 0
    ELSE CHOOSE i \in DOMAIN eps : \A j \in DOMAIN eps : j <= i

\* C35 (as claimed): after any sequence of applied events, every account's
\* rewards equal get_rewards() up to the largest stored epoch index.
C35_RewardsMatchEpochs ==
    (status = "running") =>
        \A a \in DOMAIN wallets :
            wallets[a].rewards = get_rewards(epochs, a, MaxEpochIndex(epochs))

\* C36 (as claimed): for the epoch i a reward event has just distributed,
\* i == 1 included, get_rewards_for_epoch() of every account is the amount
\* its rewards were increased by.
C36_RewardsForEpoch ==
    [][(StepKind \in MintKinds /\ last'.res = "Ok")
        => \A a \in DOMAIN wallets' :
              get_rewards_for_epoch(epochs', a, StepEntry.epoch_index)
                 = wallets'[a].rewards - PreCall[a].rewards]_vars

----------------------------------------------------------------------------
(* The supporter flag next to a pending unstake, and the stability of a     *)
(* proposal.                                                                *)

\* C37 (as claimed): after every applied event, an account with a scheduled
\* unstake is not marked a supporter.
C37_PendingUnstakeNoSupporter ==
    \A a \in DOMAIN wallets :
        (wallets[a].scheduled_unstake # None) => ~wallets[a].supporter

\* C38 (as claimed): an executed proposal stays executed under every later
\* event, and the votes in its yes / no maps stay recorded, a repeated
\* StartVote for the same key included.
C38_ExecutedStable ==
    [][\A k \in DOMAIN votings :
          /\ k \in DOMAIN votings'
          /\ votings[k].executed => votings'[k].executed
          /\ (StepKind = "StartVote") =>
                /\ DOMAIN votings[k].yes \subseteq DOMAIN votings'[k].yes
                /\ DOMAIN votings[k].no \subseteq DOMAIN votings'[k].no]_vars

----------------------------------------------------------------------------
(* SpecFrame: deposits, withdrawals, proposals, votes and the vesting list  *)
(* over a ledger with stakes, a delegation and reward epochs.               *)

FrameStakedStep ==
    /\ clock < MaxFrameEvents
    /\ \E u \in Addr : Staked(u, 1, 1, FALSE)
    /\ UNCHANGED <<rt, server>>

FrameDelegatedStep ==
    /\ clock < MaxFrameEvents
    /\ Delegated("a1", "a2", 0, FALSE)
    /\ UNCHANGED <<rt, server>>

FrameMintedRewardStep ==
    /\ clock < MaxFrameEvents
    /\ MintedRewardV0(epoch_index, 1, 2500)
    /\ UNCHANGED <<rt, server>>

FrameDepositedStep ==
    /\ clock < MaxFrameEvents
    /\ \E u \in Addr, kind \in {"Deposited", "DepositedV0", "DepositedVesting",
                                "DepositedByTimelockManager"} :
          update([kind |-> kind, user |-> u, amount |-> 1])
    /\ UNCHANGED <<rt, server>>

FrameWithdrawnStep ==
    /\ clock < MaxFrameEvents
    /\ \E u \in Addr, kind \in {"Withdrawn", "WithdrawnV0"} :
          update([kind |-> kind, user |-> u, amount |-> 1])
    /\ UNCHANGED <<rt, server>>

FrameVoteStep ==
    /\ clock < MaxFrameEvents
    /\ \/ \E creator \in Addr : StartVoteEvent("Primary", 1, creator, Metadata)
       \/ \E voter \in Addr : CastVoteEvent("Primary", 1, voter, TRUE, 1)
       \/ ExecuteVoteEvent("Primary", 1)
    /\ UNCHANGED <<rt, server>>

FrameSetVestingAddressesStep ==
    /\ clock < MaxFrameEvents
    /\ update([kind |-> "SetVestingAddresses", addresses |-> {"a1"}])
    /\ UNCHANGED <<rt, server>>

NextFrame ==
    \/ FrameStakedStep
    \/ FrameDelegatedStep
    \/ FrameMintedRewardStep
    \/ FrameDepositedStep
    \/ FrameWithdrawnStep
    \/ FrameVoteStep
    \/ FrameSetVestingAddressesStep

SpecFrame == Init /\ [][NextFrame]_vars

DepositKinds == {"Deposited", "DepositedV0", "DepositedVesting",
                 "DepositedByTimelockManager", "Withdrawn", "WithdrawnV0"}

NonStakingKinds ==
    DepositKinds \cup {"StartVote", "CastVote", "ExecuteVote", "SetVestingAddresses"}

\* the fields of an account that staking, delegation and rewards maintain
StakingFields(w) ==
    [staked |-> w.staked, shares |-> w.shares, rewards |-> w.rewards,
     scheduled_unstake |-> w.scheduled_unstake, delegates |-> w.delegates,
     delegated |-> w.delegated, voting_power |-> w.voting_power]

\* an account without the fields a deposit or withdrawal may write
BesidesDeposit(w) ==
    [w EXCEPT !.deposited = 0, !.withdrawn = 0, !.vested_amount = None,
              !.supporter = FALSE]

\* the non-staking events leave the staking fields of every account, the
\* epochs and epoch_index as they were
StakingFrame ==
    /\ \A a \in DOMAIN wallets' :
          StakingFields(wallets'[a]) = StakingFields(PreCall[a])
    /\ epochs' = epochs
    /\ epoch_index' = epoch_index

\* C39 (as claimed): the non-staking events leave the staking fields, the
\* epochs and epoch_index unchanged, and a deposit or withdrawal changes
\* nothing of any account but deposited, withdrawn, vested_amount and
\* supporter of the named user.
C39_FrameAsClaimed ==
    [][(StepKind \in NonStakingKinds) =>
          /\ StakingFrame
          /\ (StepKind \in DepositKinds) =>
                (\A a \in DOMAIN wallets :
                    IF a = StepEntry.user
                    THEN BesidesDeposit(wallets'[a]) = BesidesDeposit(wallets[a])
                    ELSE wallets'[a] = wallets[a])]_vars

\* C39 (amended): the same, where a deposit or withdrawal also stamps
\* updated_at of the named user with the event's timestamp, and creates the
\* user's record when the event is the first to name the address.
C39_Frame ==
    [][(StepKind \in NonStakingKinds) =>
          /\ StakingFrame
          /\ (StepKind \in DepositKinds) =>
                /\ DOMAIN wallets' = DOMAIN wallets \cup {StepEntry.user}
                /\ \A a \in DOMAIN wallets' :
                      IF a = StepEntry.user
                      THEN /\ BesidesDeposit(wallets'[a]) = BesidesDeposit(PreCall[a])
                           /\ wallets'[a].updated_at = StepEvent.tm
                      ELSE wallets'[a] = wallets[a]]_vars

\* a withdrawal by an account that holds a stake and rewards of a stored
\* epoch
C39_Witness ==
    /\ LastKind \in {"Withdrawn", "WithdrawnV0"}
    /\ LastEntry.user \in DOMAIN wallets
    /\ wallets[LastEntry.user].staked > 0
    /\ wallets[LastEntry.user].rewards > 0
    /\ wallets[LastEntry.user].withdrawn > 0
    /\ wallets[LastEntry.user].created_at < wallets[LastEntry.user].updated_at
    /\ DOMAIN epochs # {}

====
